---- MODULE Spec2Model ----
(***************************************************************************)
(* A model of pepdbagent's accessor modules (annotation, namespace,       *)
(* schema, view, user): the relational tables they read and write, the    *)
(* statements they build, and the objects or errors each call hands back. *)
(*                                                                         *)
(* Strings are sequences of one-character strings, so that ILIKE is a     *)
(* case-folding substring test and a registry path is really parsed.      *)
(* Search strings are drawn from letters only: the LIKE metacharacters    *)
(* '%' and '_' are not part of the alphabet.                               *)
(* Python's None and "" are both the empty sequence: every test the code  *)
(* makes on these arguments is a truthiness test.                          *)
(***************************************************************************)
EXTENDS Integers, Sequences, FiniteSets, TLC

VARIABLES
    projects,      \* rows of the Projects table
    bulk,          \* further public rows of BulkNamespace (see BulkCounts)
    schemas,       \* rows of the Schemas table
    ret,           \* the call the client made last and what it got back
    groups,        \* rows of the SchemaGroups table
    samples,       \* rows of the Samples table
    views,         \* rows of the Views table
    view_samples,  \* rows of the ViewSampleAssociation table
    users,         \* rows of the User table
    favorites,     \* rows of the Favorites table
    sessions,      \* how many sessions on the engine are open
    inflight       \* the calls of concurrent callers that have not finished

vars ==
    <<projects, bulk, schemas, ret, groups, samples, views, view_samples,
      users, favorites, sessions, inflight>>

(* What the annotation, namespace and schema calls above never touch *)
untouched == <<groups, samples, views, view_samples, users, favorites, inflight>>

-----------------------------------------------------------------------------
(* Bounds of the model *)

MaxProjects == 2
MaxLimit == 2
MaxOffset == 1
MaxPaths == 3
MaxSchemas == 2

(* annotation.py:221 and :286: description search is on below this count *)
ProjectNumberThreshold == 1000

-----------------------------------------------------------------------------
(* Strings *)

None == << >>

Lower(c) == CASE c = "A" -> "a" [] c = "B" -> "b" [] OTHER -> c

LowerStr(s) == [i \in 1..Len(s) |-> Lower(s[i])]

Contains(s, q) == \E i \in 0..(Len(s) - Len(q)) : SubSeq(s, i + 1, i + Len(q)) = q

(* column.ilike(f"%{search_str}%") *)
ilike(s, search_str) == Contains(LowerStr(s), LowerStr(search_str))

Min(a, b) == IF a < b THEN a ELSE b

Max(a, b) == IF a > b THEN a ELSE b

RECURSIVE SumSamples(_)
(* func.sum(Projects.number_of_samples) over a group of rows *)
SumSamples(S) ==
    IF S = {} THEN 0
    ELSE LET x == CHOOSE y \in S : TRUE
         IN x.number_of_samples + SumSamples(S \ {x})

-----------------------------------------------------------------------------
(* The input universe *)

NS1 == <<"a", "b">>
NS2 == <<"B">>
Namespaces == {NS1, NS2}
Names == {<<"A">>, <<"b">>}
Tags == {<<"a">>}
Descriptions == {<<"b", "A">>, <<"b">>}

Keys == [namespace : Namespaces, name : Names, tag : Tags]

(* Each key has three candidate rows: two public ones, one private *)
ProjectRows ==
    {[namespace |-> k.namespace, name |-> k.name, tag |-> k.tag,
      private |-> v[1], description |-> v[2], number_of_samples |-> v[3]] :
        k \in Keys,
        v \in {<<FALSE, <<"b", "A">>, 1>>, <<FALSE, <<"b">>, 2>>,
               <<TRUE, <<"b", "A">>, 2>>}}

KeyOf(p) == [namespace |-> p.namespace, name |-> p.name, tag |-> p.tag]

(* (namespace, name, tag) is the primary key of Projects *)
UniqueKeys(P) == \A p, q \in P : KeyOf(p) = KeyOf(q) => p = q

Databases ==
    {P \in SUBSET ProjectRows : Cardinality(P) <= MaxProjects /\ UniqueKeys(P)}

(* Rows that are counted but not told apart: public projects of             *)
(* BulkNamespace whose name, tag and description hold none of the letters   *)
(* of Queries, so that a namespace can hold ProjectNumberThreshold projects *)
BulkNamespace == NS1
BulkCounts == {0, ProjectNumberThreshold - 2, ProjectNumberThreshold - 1}

Queries == {None, <<"a">>, <<"B", "a">>}
NamespaceArgs == {None} \cup Namespaces
Admins == {<< >>, <<NS1>>, <<NS1, NS2>>}

LookupTags == Tags \cup {<<"b">>}

RegistryPath(k) == k.namespace \o <<"/">> \o k.name \o <<":">> \o k.tag

(* Two well-formed paths and a malformed one *)
Paths ==
    {RegistryPath([namespace |-> NS1, name |-> <<"A">>, tag |-> <<"a">>]),
     RegistryPath([namespace |-> NS2, name |-> <<"b">>, tag |-> <<"a">>]),
     <<"a", "b">>}

PathLists == UNION {[1..n -> Paths] : n \in 0..MaxPaths}

SchemaNames == {<<"A">>, <<"b">>}
SchemaDescriptions == {<<"a">>, << >>}
Documents == {"S1", "S2"}

SchemaRows ==
    [namespace : Namespaces, name : SchemaNames,
     schema_json : Documents, description : SchemaDescriptions]

SchemaKeyOf(r) == [namespace |-> r.namespace, name |-> r.name]

(* (namespace, name) is unique in Schemas *)
UniqueSchemaKeys(T) == \A r, q \in T : SchemaKeyOf(r) = SchemaKeyOf(q) => r = q

SchemaTables ==
    {T \in SUBSET SchemaRows : Cardinality(T) <= MaxSchemas /\ UniqueSchemaKeys(T)}

(* What a method reads through self._sa_engine *)
Engine ==
    [projects |-> projects, bulk |-> bulk, schemas |-> schemas, groups |-> groups,
     samples |-> samples, views |-> views, view_samples |-> view_samples,
     users |-> users, favorites |-> favorites, sessions |-> sessions]

NoRet == [op |-> "none", args |-> << >>, status |-> "none", val |-> << >>]

Returned(op, args, val) == [op |-> op, args |-> args, status |-> "ok", val |-> val]

Raised(op, args, err) == [op |-> op, args |-> args, status |-> err, val |-> << >>]

(* Sessions.  `with Session(self._sa_engine) as session:` runs its block  *)
(* on the database with one more session open; leaving the block, by      *)
(* return or by exception, closes the session, and what the block had not *)
(* committed is gone with it: a method hands Session_exit the database as *)
(* its last commit left it.                                                *)

Session_enter(engine) == [engine EXCEPT !.sessions = @ + 1]

Session_exit_leaking(db) == db

Session_exit(db) == [db EXCEPT !.sessions = @ - 1]

(* A call all of whose sessions are with blocks it has left *)
SessionScoped == sessions' = Session_exit(Session_enter(Engine)).sessions

-----------------------------------------------------------------------------
(* pepdbagent.utils *)

(* tuple_converter: the namespaces a caller's admin list names *)
tuple_converter(admin) == {admin[i] : i \in 1..Len(admin)}

Seps == {"/", ":"}

HasSep(s) == \E i \in 1..Len(s) : s[i] \in Seps

(* A registry path is namespace/name:tag, the three parts non-empty *)
IsRegistryPath(path) ==
    \E i, j \in 1..Len(path) :
        /\ 1 < i /\ i + 1 < j /\ j < Len(path)
        /\ path[i] = "/" /\ path[j] = ":"
        /\ ~HasSep(SubSeq(path, 1, i - 1))
        /\ ~HasSep(SubSeq(path, i + 1, j - 1))
        /\ ~HasSep(SubSeq(path, j + 1, Len(path)))

(* registry_path_converter, on a path for which IsRegistryPath holds *)
registry_path_converter(path) ==
    LET i == CHOOSE x \in 1..Len(path) : path[x] = "/"
        j == CHOOSE x \in 1..Len(path) : path[x] = ":"
    IN [namespace |-> SubSeq(path, 1, i - 1),
        name |-> SubSeq(path, i + 1, j - 1),
        tag |-> SubSeq(path, j + 1, Len(path))]

-----------------------------------------------------------------------------
(* modules/annotation.py *)

(* Projects.namespace.in_(admin), admin a list *)
in_(x, admin) == \E i \in 1..Len(admin) : admin[i] = x

AnnotationModel(row) ==
    [namespace |-> row.namespace, name |-> row.name, tag |-> row.tag,
     is_private |-> row.private, description |-> row.description,
     number_of_samples |-> row.number_of_samples]

get_project_number_of_all(engine, namespace, admin) ==
    Cardinality({p \in engine.projects : p.namespace = namespace})
    + (IF namespace = BulkNamespace THEN engine.bulk ELSE 0)

get_project_number_anywhere(engine, namespace, admin) ==
    Cardinality({p \in engine.projects :
                    /\ namespace # None => p.namespace = namespace
                    /\ (p.private = FALSE \/ in_(p.namespace, admin))})
    + (IF namespace = None \/ namespace = BulkNamespace THEN engine.bulk ELSE 0)

get_project_number_in_namespace(engine, namespace, admin) ==
    Cardinality({p \in engine.projects :
                    /\ p.namespace = namespace
                    /\ (p.private = FALSE \/ in_(p.namespace, admin))})
    + (IF namespace = BulkNamespace THEN engine.bulk ELSE 0)

CountWhereNameOnly(engine, p, namespace, search_str, admin) ==
    /\ search_str # None => ilike(p.name, search_str)
    /\ namespace # None => p.namespace = namespace
    /\ (p.private = FALSE \/ in_(p.namespace, admin))

(* The WHERE clause that _count_projects builds, on one row *)
CountWhere(engine, p, namespace, search_str, admin) ==
    /\ search_str # None =>
          \/ ilike(p.name, search_str)
          \/ ilike(p.name, search_str)
          \/ /\ get_project_number_in_namespace(engine, namespace, admin)
                    < ProjectNumberThreshold
             /\ ilike(p.description, search_str)
    /\ namespace # None => p.namespace = namespace
    /\ (p.private = FALSE \/ in_(p.namespace, admin))

(* The bulk rows that pass the WHERE clause of _count_projects: they are   *)
(* public and match no search string                                       *)
CountBulk(engine, namespace, search_str) ==
    IF search_str = None /\ (namespace = None \/ namespace = BulkNamespace)
    THEN engine.bulk ELSE 0

_count_projects(engine, namespace, search_str, admin) ==
    Cardinality({p \in engine.projects :
                    CountWhere(engine, p, namespace, search_str, admin)})
    + CountBulk(engine, namespace, search_str)

FetchWhereNoVisibility(engine, p, namespace, search_str, admin) ==
    /\ search_str # None =>
          \/ ilike(p.name, search_str)
          \/ /\ get_project_number_in_namespace(engine, namespace, admin)
                    < ProjectNumberThreshold
             /\ ilike(p.description, search_str)
    /\ namespace # None => p.namespace = namespace

FetchWhereAnyCount(engine, p, namespace, search_str, admin) ==
    /\ search_str # None =>
          \/ ilike(p.name, search_str)
          \/ ilike(p.description, search_str)
    /\ namespace # None => p.namespace = namespace
    /\ (p.private = FALSE \/ in_(p.namespace, admin))

(* The WHERE clause that _get_projects builds, on one row *)
FetchWhere(engine, p, namespace, search_str, admin) ==
    /\ search_str # None =>
          \/ ilike(p.name, search_str)
          \/ ilike(p.name, search_str)
          \/ /\ get_project_number_in_namespace(engine, namespace, admin)
                    < ProjectNumberThreshold
             /\ ilike(p.description, search_str)
    /\ namespace # None => p.namespace = namespace
    /\ (p.private = FALSE \/ in_(p.namespace, admin))

FetchBulk(engine, namespace, search_str) ==
    IF search_str = None /\ (namespace = None \/ namespace = BulkNamespace)
    THEN engine.bulk ELSE 0

(* statement.limit(limit).offset(offset) with no ORDER BY: any limit rows  *)
(* of those left after some offset rows. A page is the rows told apart     *)
(* and the number of bulk rows beside them.                                *)
Pages(rows, nbulk, limit, offset) ==
    LET n == Min(limit, Max(Cardinality(rows) + nbulk - offset, 0))
    IN {[rows |-> S, bulk |-> n - Cardinality(S)] :
            S \in {T \in SUBSET rows :
                      Cardinality(T) <= n /\ n - Cardinality(T) <= nbulk}}

_get_projects(engine, namespace, search_str, admin, limit, offset) ==
    {[rows |-> {AnnotationModel(p) : p \in page.rows}, bulk |-> page.bulk] :
        page \in Pages({p \in engine.projects :
                           FetchWhere(engine, p, namespace, search_str, admin)},
                       FetchBulk(engine, namespace, search_str), limit, offset)}

SingleAnnotationAnyRow(engine, namespace, name, tag, admin) ==
    LET found == {p \in engine.projects :
                    p.name = name /\ p.namespace = namespace /\ p.tag = tag}
    IN IF found = {}
       THEN [status |-> "TypeError", val |-> << >>]
       ELSE [status |-> "ok", val |-> AnnotationModel(CHOOSE p \in found : TRUE)]

(* _get_single_annotation: Result.first() is None when no row matches, and *)
(* len(None) raises TypeError before the else branch is reached            *)
_get_single_annotation(engine, namespace, name, tag, admin) ==
    LET found == {p \in engine.projects :
                    /\ p.name = name
                    /\ p.namespace = namespace
                    /\ p.tag = tag
                    /\ (p.namespace \in tuple_converter(admin) \/ p.private = FALSE)}
    IN IF found = {}
       THEN [status |-> "TypeError", val |-> << >>]
       ELSE [status |-> "ok", val |-> AnnotationModel(CHOOSE p \in found : TRUE)]

RECURSIVE get_by_rp_raising(_, _, _, _)
get_by_rp_raising(engine, registry_paths, admin, anno_results) ==
    IF registry_paths = << >>
    THEN [status |-> "ok", val |-> anno_results]
    ELSE LET path == Head(registry_paths)
         IN IF ~IsRegistryPath(path)
            THEN [status |-> "RegistryPathError", val |-> << >>]
            ELSE LET k == registry_path_converter(path)
                     single_return ==
                         _get_single_annotation(engine, k.namespace, k.name, k.tag, admin)
                 IN IF single_return.status = "ok"
                    THEN get_by_rp_raising(engine, Tail(registry_paths), admin,
                                           Append(anno_results, single_return.val))
                    ELSE [status |-> single_return.status, val |-> << >>]

RECURSIVE get_by_rp_loop(_, _, _, _)
(* The for loop of get_by_rp over the paths left, anno_results so far *)
get_by_rp_loop(engine, registry_paths, admin, anno_results) ==
    IF registry_paths = << >>
    THEN [status |-> "ok", val |-> anno_results]
    ELSE LET path == Head(registry_paths)
         IN IF ~IsRegistryPath(path)
            THEN get_by_rp_loop(engine, Tail(registry_paths), admin, anno_results)
            ELSE LET k == registry_path_converter(path)
                     single_return ==
                         _get_single_annotation(engine, k.namespace, k.name, k.tag, admin)
                 IN CASE single_return.status = "ok" ->
                           get_by_rp_loop(engine, Tail(registry_paths), admin,
                                          Append(anno_results, single_return.val))
                      [] single_return.status = "ProjectNotFoundError" ->
                           get_by_rp_loop(engine, Tail(registry_paths), admin, anno_results)
                      [] OTHER -> [status |-> single_return.status, val |-> << >>]

(* PEPDatabaseAnnotation.get with namespace, name and tag all given *)
AnnotationGetSingle ==
    /\ ret = NoRet
    /\ UNCHANGED <<projects, bulk, schemas>>
    /\ SessionScoped
    /\ UNCHANGED untouched
    /\ \E namespace \in Namespaces, name \in Names, tag \in LookupTags, admin \in Admins :
        LET args == [namespace |-> namespace, name |-> name, tag |-> tag, admin |-> admin]
            got == _get_single_annotation(Engine, namespace, name, tag, admin)
        IN ret' = IF got.status = "ok"
                  THEN Returned("get", args,
                                [count |-> Len(<<got.val>>), limit |-> 1, offset |-> 0,
                                 results |-> <<got.val>>])
                  ELSE Raised("get", args, got.status)

(* PEPDatabaseAnnotation.get with name and tag not given: the listing *)
AnnotationGetList ==
    /\ ret = NoRet
    /\ UNCHANGED <<projects, bulk, schemas>>
    /\ SessionScoped
    /\ UNCHANGED untouched
    /\ \E namespace \in NamespaceArgs, query \in Queries, admin \in Admins,
          limit \in 0..MaxLimit, offset \in 0..MaxOffset :
        \E page \in _get_projects(Engine, namespace, query, admin, limit, offset) :
            ret' = Returned("list",
                            [namespace |-> namespace, query |-> query, admin |-> admin],
                            [count |-> _count_projects(Engine, namespace, query, admin),
                             limit |-> limit, offset |-> offset,
                             rows |-> page.rows, bulk |-> page.bulk])

(* PEPDatabaseAnnotation.get_by_rp with a list of registry paths *)
AnnotationGetByRp ==
    /\ ret = NoRet
    /\ UNCHANGED <<projects, bulk, schemas>>
    /\ SessionScoped
    /\ UNCHANGED untouched
    /\ \E registry_paths \in PathLists, admin \in Admins :
        LET args == [registry_paths |-> registry_paths, admin |-> admin]
            got == get_by_rp_loop(Engine, registry_paths, admin, << >>)
        IN ret' = IF got.status = "ok"
                  THEN Returned("get_by_rp", args,
                                [count |-> Len(got.val), limit |-> Len(registry_paths),
                                 offset |-> 0, results |-> got.val])
                  ELSE Raised("get_by_rp", args, got.status)

-----------------------------------------------------------------------------
(* modules/namespace.py *)

NamespaceFetchWhereAll(p, search_str, admin_nsp) ==
    search_str # None => ilike(p.namespace, search_str)

(* The WHERE clause that _get_namespace builds, on one row *)
NamespaceFetchWhere(p, search_str, admin_nsp) ==
    /\ search_str # None => ilike(p.namespace, search_str)
    /\ (p.private = FALSE \/ p.namespace \in admin_nsp)

(* The WHERE clause that _count_namespace builds, on one row *)
NamespaceCountWhere(p, search_str, admin_nsp) ==
    /\ search_str # None => ilike(p.namespace, search_str)
    /\ (p.private = FALSE \/ p.namespace \in admin_nsp)

(* The bulk rows, public rows of BulkNamespace that hold no samples, that  *)
(* pass either WHERE clause                                                *)
NamespaceBulk(engine, search_str) ==
    IF search_str # None => ilike(BulkNamespace, search_str) THEN engine.bulk ELSE 0

(* select(namespace, count(name), sum(number_of_samples)).group_by(namespace) *)
NamespaceGroups(engine, search_str, admin_nsp) ==
    LET rows == {p \in engine.projects : NamespaceFetchWhere(p, search_str, admin_nsp)}
        nbulk(ns) == IF ns = BulkNamespace THEN NamespaceBulk(engine, search_str) ELSE 0
        group(ns) == {p \in rows : p.namespace = ns}
    IN {[namespace |-> ns,
         number_of_projects |-> Cardinality(group(ns)) + nbulk(ns),
         number_of_samples |-> SumSamples(group(ns))] :
            ns \in {n \in Namespaces : group(n) # {} \/ nbulk(n) > 0}}

_get_namespace(engine, search_str, admin_nsp, limit, offset) ==
    {page.rows :
        page \in Pages(NamespaceGroups(engine, search_str, admin_nsp), 0, limit, offset)}

(* count(distinct(Projects.namespace)) *)
_count_namespace(engine, search_str, admin_nsp) ==
    LET rows == {p \in engine.projects : NamespaceCountWhere(p, search_str, admin_nsp)}
    IN Cardinality({p.namespace : p \in rows}
                   \cup (IF NamespaceBulk(engine, search_str) > 0
                         THEN {BulkNamespace} ELSE {}))

(* PEPDatabaseNamespace.get *)
NamespaceGet ==
    /\ ret = NoRet
    /\ UNCHANGED <<projects, bulk, schemas>>
    /\ SessionScoped
    /\ UNCHANGED untouched
    /\ \E query \in Queries, admin \in Admins,
          limit \in 0..MaxLimit, offset \in 0..MaxOffset :
        LET admin_tuple == tuple_converter(admin)
        IN \E results \in _get_namespace(Engine, query, admin_tuple, limit, offset) :
            ret' = Returned("namespace",
                            [query |-> query, admin |-> admin],
                            [count |-> _count_namespace(Engine, query, admin_tuple),
                             limit |-> limit, offset |-> offset,
                             results |-> results])

-----------------------------------------------------------------------------
(* modules/schema.py *)

SchemaAnnotation(row) ==
    [namespace |-> row.namespace, name |-> row.name, description |-> row.description]

(* select(Schemas).where(namespace == namespace, name == name) *)
SchemaAt(engine, namespace, name) ==
    {r \in engine.schemas : r.namespace = namespace /\ r.name = name}

Schemas_get(engine, namespace, name) ==
    LET schema_obj == SchemaAt(engine, namespace, name)
    IN IF schema_obj = {}
       THEN [status |-> "SchemaDoesNotExistError", val |-> << >>]
       ELSE [status |-> "ok", val |-> (CHOOSE r \in schema_obj : TRUE).schema_json]

Schemas_info(engine, namespace, name) ==
    LET schema_obj == SchemaAt(engine, namespace, name)
    IN IF schema_obj = {}
       THEN [status |-> "SchemaDoesNotExistError", val |-> << >>]
       ELSE [status |-> "ok", val |-> SchemaAnnotation(CHOOSE r \in schema_obj : TRUE)]

Schemas_exist(engine, namespace, name) == SchemaAt(engine, namespace, name) # {}

(* _add_condition, on one row *)
_add_condition(r, namespace, search_str) ==
    /\ search_str # None =>
          ilike(r.name, search_str) \/ ilike(r.description, search_str)
    /\ namespace # None => r.namespace = namespace

_count_search(engine, namespace, search_str) ==
    Cardinality({r \in engine.schemas : _add_condition(r, namespace, search_str)})

Schemas_search(engine, namespace, search_str, limit, offset) ==
    {[count |-> _count_search(engine, namespace, search_str),
      limit |-> limit, offset |-> offset,
      results |-> {SchemaAnnotation(r) : r \in page.rows}] :
        page \in Pages({r \in engine.schemas : _add_condition(r, namespace, search_str)},
                       0, limit, offset)}

Schemas_update(engine, namespace, name, schema, description) ==
    IF SchemaAt(engine, namespace, name) = {}
    THEN [status |-> "SchemaDoesNotExistError", schemas |-> engine.schemas]
    ELSE [status |-> "ok",
          schemas |-> {IF r \in SchemaAt(engine, namespace, name)
                       THEN [r EXCEPT !.schema_json = schema,
                                      !.description = description]
                       ELSE r : r \in engine.schemas}]

Schemas_create_keep_first(engine, namespace, name, schema, description, overwrite, update_only) ==
    IF Schemas_exist(engine, namespace, name)
    THEN IF update_only
         THEN Schemas_update(engine, namespace, name, schema, description)
         ELSE IF overwrite
              THEN [status |-> "ok", schemas |-> engine.schemas]
              ELSE [status |-> "SchemaAlreadyExistsError", schemas |-> engine.schemas]
    ELSE IF update_only
         THEN [status |-> "SchemaDoesNotExistError", schemas |-> engine.schemas]
         ELSE [status |-> "ok",
               schemas |-> engine.schemas
                           \cup {[namespace |-> namespace, name |-> name,
                                  schema_json |-> schema, description |-> description]}]

Schemas_create_no_description(engine, namespace, name, schema, description, overwrite, update_only) ==
    IF Schemas_exist(engine, namespace, name)
    THEN IF overwrite \/ update_only
         THEN Schemas_update(engine, namespace, name, schema, description)
         ELSE [status |-> "SchemaAlreadyExistsError", schemas |-> engine.schemas]
    ELSE IF update_only
         THEN [status |-> "SchemaDoesNotExistError", schemas |-> engine.schemas]
         ELSE [status |-> "ok",
               schemas |-> engine.schemas
                           \cup {[namespace |-> namespace, name |-> name,
                                  schema_json |-> schema, description |-> << >>]}]

Schemas_create_upsert(engine, namespace, name, schema, description, overwrite, update_only) ==
    IF Schemas_exist(engine, namespace, name)
    THEN IF overwrite \/ update_only
         THEN Schemas_update(engine, namespace, name, schema, description)
         ELSE [status |-> "SchemaAlreadyExistsError", schemas |-> engine.schemas]
    ELSE [status |-> "ok",
          schemas |-> engine.schemas
                      \cup {[namespace |-> namespace, name |-> name,
                             schema_json |-> schema, description |-> description]}]

Schemas_create(engine, namespace, name, schema, description, overwrite, update_only) ==
    IF Schemas_exist(engine, namespace, name)
    THEN IF overwrite
         THEN Schemas_update(engine, namespace, name, schema, description)
         ELSE IF update_only
              THEN Schemas_update(engine, namespace, name, schema, description)
              ELSE [status |-> "SchemaAlreadyExistsError", schemas |-> engine.schemas]
    ELSE IF update_only
         THEN [status |-> "SchemaDoesNotExistError", schemas |-> engine.schemas]
         ELSE [status |-> "ok",
               schemas |-> engine.schemas
                           \cup {[namespace |-> namespace, name |-> name,
                                  schema_json |-> schema, description |-> description]}]

Schemas_delete_by_name(engine, namespace, name) ==
    IF SchemaAt(engine, namespace, name) = {}
    THEN [status |-> "SchemaDoesNotExistError", schemas |-> engine.schemas]
    ELSE [status |-> "ok", schemas |-> {r \in engine.schemas : r.name # name}]

Schemas_delete(engine, namespace, name) ==
    IF SchemaAt(engine, namespace, name) = {}
    THEN [status |-> "SchemaDoesNotExistError", schemas |-> engine.schemas]
    ELSE [status |-> "ok", schemas |-> engine.schemas \ SchemaAt(engine, namespace, name)]

(* A writing call: its tables after it, and what the client sees *)
Wrote(op, args, out) ==
    /\ schemas' = out.schemas
    /\ ret' = IF out.status = "ok" THEN Returned(op, args, << >>)
              ELSE Raised(op, args, out.status)
    /\ UNCHANGED <<projects, bulk>>
    /\ SessionScoped
    /\ UNCHANGED untouched

(* A reading call *)
Read(op, args, out) ==
    /\ ret' = IF out.status = "ok" THEN Returned(op, args, out.val)
              ELSE Raised(op, args, out.status)
    /\ UNCHANGED <<projects, bulk, schemas>>
    /\ SessionScoped
    /\ UNCHANGED untouched

SchemaCreate ==
    /\ ret = NoRet
    /\ \E namespace \in Namespaces, name \in SchemaNames, schema \in Documents,
          description \in SchemaDescriptions, overwrite, update_only \in BOOLEAN :
        /\ Schemas_exist(Engine, namespace, name) \/ Cardinality(schemas) < MaxSchemas
        /\ Wrote("create",
                 [namespace |-> namespace, name |-> name, schema |-> schema,
                  description |-> description, overwrite |-> overwrite,
                  update_only |-> update_only],
                 Schemas_create(Engine, namespace, name, schema, description,
                                overwrite, update_only))

SchemaUpdate ==
    /\ ret = NoRet
    /\ \E namespace \in Namespaces, name \in SchemaNames, schema \in Documents,
          description \in SchemaDescriptions :
        Wrote("update",
              [namespace |-> namespace, name |-> name, schema |-> schema,
               description |-> description],
              Schemas_update(Engine, namespace, name, schema, description))

SchemaDelete ==
    /\ ret = NoRet
    /\ \E namespace \in Namespaces, name \in SchemaNames :
        Wrote("delete", [namespace |-> namespace, name |-> name],
              Schemas_delete(Engine, namespace, name))

SchemaGet ==
    /\ ret = NoRet
    /\ \E namespace \in Namespaces, name \in SchemaNames :
        Read("schema_get", [namespace |-> namespace, name |-> name],
             Schemas_get(Engine, namespace, name))

SchemaInfo ==
    /\ ret = NoRet
    /\ \E namespace \in Namespaces, name \in SchemaNames :
        Read("info", [namespace |-> namespace, name |-> name],
             Schemas_info(Engine, namespace, name))

SchemaExist ==
    /\ ret = NoRet
    /\ \E namespace \in Namespaces, name \in SchemaNames :
        Read("exist", [namespace |-> namespace, name |-> name],
             [status |-> "ok", val |-> Schemas_exist(Engine, namespace, name)])

SchemaSearch ==
    /\ ret = NoRet
    /\ \E namespace \in NamespaceArgs, search_str \in Queries,
          limit \in 0..MaxLimit, offset \in 0..MaxOffset :
        \E found \in Schemas_search(Engine, namespace, search_str, limit, offset) :
            Read("search", [namespace |-> namespace, search_str |-> search_str],
                 [status |-> "ok", val |-> found])

-----------------------------------------------------------------------------
(* How a method ends: the value or the error, and the database it leaves *)
Done(val, db) == [status |-> "ok", val |-> val, engine |-> db]

Fail(err, db) == [status |-> err, val |-> << >>, engine |-> db]

(* A call of the client: the database after it, and what the client sees *)
Call(op, args, out) ==
    /\ ret' = IF out.status = "ok" THEN Returned(op, args, out.val)
              ELSE Raised(op, args, out.status)
    /\ projects' = out.engine.projects
    /\ bulk' = out.engine.bulk
    /\ schemas' = out.engine.schemas
    /\ groups' = out.engine.groups
    /\ samples' = out.engine.samples
    /\ views' = out.engine.views
    /\ view_samples' = out.engine.view_samples
    /\ users' = out.engine.users
    /\ favorites' = out.engine.favorites
    /\ sessions' = out.engine.sessions
    /\ UNCHANGED inflight

-----------------------------------------------------------------------------
(* schema.py: schema groups *)

GroupNames == {<<"A">>, <<"b">>}
GroupDescriptions == {<<"a">>, << >>}

(* select(SchemaGroups).where(namespace == namespace, name == name) *)
GroupAt(engine, namespace, name) ==
    {g \in engine.groups : g.namespace = namespace /\ g.name = name}

group_exist(engine, namespace, name) ==
    LET session == Session_enter(engine)
    IN Done(GroupAt(session, namespace, name) # {}, Session_exit(session))

(* The insert of a second row under a (namespace, name) in use is the     *)
(* IntegrityError that group_create translates                             *)
group_create(engine, namespace, name, description) ==
    LET session == Session_enter(engine)
    IN IF GroupAt(session, namespace, name) # {}
       THEN Fail("SchemaGroupAlreadyExistsError", Session_exit(session))
       ELSE Done(<< >>,
                 Session_exit([session EXCEPT !.groups =
                     @ \cup {[namespace |-> namespace, name |-> name,
                              description |-> description]}]))

(* schema_relation_mapping is always empty: group_add_schema is a stub *)
group_get(engine, namespace, name) ==
    LET session == Session_enter(engine)
        schema_group_obj == GroupAt(session, namespace, name)
    IN IF schema_group_obj = {}
       THEN Fail("SchemaGroupDoesNotExistError", Session_exit(session))
       ELSE Done([namespace |-> namespace, name |-> name,
                  description |-> (CHOOSE g \in schema_group_obj : TRUE).description,
                  schemas |-> {}],
                 Session_exit(session))

group_delete(engine, namespace, name) ==
    LET exists == group_exist(engine, namespace, name)
        session == Session_enter(exists.engine)
    IN IF exists.val
       THEN Fail("SchemaGroupDoesNotExistError", exists.engine)
       ELSE Done(<< >>,
                 Session_exit([session EXCEPT !.groups =
                     @ \ GroupAt(session, namespace, name)]))

GroupCreate ==
    /\ ret = NoRet
    /\ \E namespace \in Namespaces, name \in GroupNames, description \in GroupDescriptions :
        Call("group_create",
             [namespace |-> namespace, name |-> name, description |-> description],
             group_create(Engine, namespace, name, description))

GroupDelete ==
    /\ ret = NoRet
    /\ \E namespace \in Namespaces, name \in GroupNames :
        Call("group_delete", [namespace |-> namespace, name |-> name],
             group_delete(Engine, namespace, name))

GroupGet ==
    /\ ret = NoRet
    /\ \E namespace \in Namespaces, name \in GroupNames :
        Call("group_get", [namespace |-> namespace, name |-> name],
             group_get(Engine, namespace, name))

GroupExist ==
    /\ ret = NoRet
    /\ \E namespace \in Namespaces, name \in GroupNames :
        Call("group_exist", [namespace |-> namespace, name |-> name],
             group_exist(Engine, namespace, name))

-----------------------------------------------------------------------------
(* view.py *)

MaxSampleList == 2

SampleNames == {"s1", "s2"}
ViewNames == {"v", "w"}
ViewDescriptions == {<<"a">>}

(* The projects the view and user methods are called on: a public one     *)
(* with two samples, a private one with one sample                         *)
ViewProject1 ==
    [namespace |-> NS1, name |-> <<"A">>, tag |-> <<"a">>, private |-> FALSE,
     description |-> <<"b", "A">>, number_of_samples |-> 2]

ViewProject2 ==
    [namespace |-> NS2, name |-> <<"b">>, tag |-> <<"a">>, private |-> TRUE,
     description |-> <<"b">>, number_of_samples |-> 1]

ViewProjects == {ViewProject1, ViewProject2}

(* A Samples row: the project it belongs to and its name in the project;  *)
(* its `sample` document is told apart by these                            *)
SampleRow(p, sample_name) == [project |-> KeyOf(p), sample_name |-> sample_name]

ViewSamples ==
    {SampleRow(ViewProject1, "s1"), SampleRow(ViewProject1, "s2"),
     SampleRow(ViewProject2, "s1")}

(* The keys of the two projects and a key no project has *)
ViewKeys ==
    {KeyOf(ViewProject1), KeyOf(ViewProject2),
     [namespace |-> NS1, name |-> <<"b">>, tag |-> <<"a">>]}

(* The sample_list arguments: each names a sample at most once *)
SampleLists ==
    {L \in UNION {[1..n -> SampleNames] : n \in 0..MaxSampleList} :
        \A i, j \in 1..Len(L) : L[i] = L[j] => i = j}

(* Projects.config of a row *)
config(project) == [name |-> project.name, description |-> project.description]

(* select(Projects).where(namespace, name, tag) *)
ProjectAt(engine, key) == {p \in engine.projects : KeyOf(p) = key}

(* select(Samples).where(project_id == project.id, sample_name == name) *)
SampleAt(engine, key, sample_name) ==
    {s \in engine.samples : s.project = key /\ s.sample_name = sample_name}

(* select(Views).where(project_mapping.has(namespace, name, tag), name) *)
ViewAt(engine, key, view_name) ==
    {v \in engine.views : v.project = key /\ v.name = view_name}

(* view.samples: the associations of a view *)
SamplesOfView(engine, key, view_name) ==
    {a \in engine.view_samples : a.project = key /\ a.view = view_name}

ViewSampleAssociation(key, view_name, sample_name) ==
    [project |-> key, view |-> view_name, sample_name |-> sample_name]

View_get(engine, key, view_name) ==
    LET sa_session == Session_enter(engine)
        view == ViewAt(sa_session, key, view_name)
    IN IF view = {}
       THEN Fail("ViewNotFoundError", Session_exit(sa_session))
       ELSE Done([_config |-> config(CHOOSE p \in ProjectAt(sa_session, key) : TRUE),
                  _sample_dict |->
                      {s \in sa_session.samples :
                          ViewSampleAssociation(key, view_name, s.sample_name)
                              \in SamplesOfView(sa_session, key, view_name)
                          /\ s.project = key},
                  _subsample_dict |-> None],
                 Session_exit(sa_session))

View_get_annotation(engine, key, view_name) ==
    LET sa_session == Session_enter(engine)
        view == ViewAt(sa_session, key, view_name)
    IN IF view = {}
       THEN Fail("ViewNotFoundError", Session_exit(sa_session))
       ELSE Done([project_namespace |-> key.namespace, project_name |-> key.name,
                  project_tag |-> key.tag, name |-> view_name,
                  description |-> (CHOOSE v \in view : TRUE).description,
                  number_of_samples |->
                      Cardinality(SamplesOfView(sa_session, key, view_name))],
                 Session_exit(sa_session))

RECURSIVE create_loop(_, _, _, _)
(* view.py:171-183 on the session's work: the status, and the work so far *)
create_loop(work, key, view_name, sample_list) ==
    IF sample_list = << >> THEN [status |-> "ok", work |-> work]
    ELSE IF SampleAt(work, key, Head(sample_list)) = {}
         THEN [status |-> "NoResultFound", work |-> work]
         ELSE create_loop([work EXCEPT !.view_samples =
                              @ \cup {ViewSampleAssociation(key, view_name,
                                                            Head(sample_list))}],
                          key, view_name, Tail(sample_list))

View_create_flushing(engine, view_name, view_dict, description) ==
    LET sa_session == Session_enter(engine)
        key == [namespace |-> view_dict.project_namespace,
                name |-> view_dict.project_name, tag |-> view_dict.project_tag]
        added == [sa_session EXCEPT !.views =
                     @ \cup {[project |-> key, name |-> view_name,
                              description |-> description]}]
        looped == create_loop(added, key, view_name, view_dict.sample_list)
    IN IF ProjectAt(sa_session, key) = {}
       THEN Fail("ValueError", Session_exit(sa_session))
       ELSE IF looped.status # "ok"
            THEN Fail(looped.status, Session_exit(looped.work))
            ELSE Done(<< >>, Session_exit(looped.work))

(* The one commit is the last statement: a raise before it leaves the     *)
(* database as the session found it                                        *)
View_create(engine, view_name, view_dict, description) ==
    LET sa_session == Session_enter(engine)
        key == [namespace |-> view_dict.project_namespace,
                name |-> view_dict.project_name, tag |-> view_dict.project_tag]
        added == [sa_session EXCEPT !.views =
                     @ \cup {[project |-> key, name |-> view_name,
                              description |-> description]}]
        looped == create_loop(added, key, view_name, view_dict.sample_list)
    IN IF ProjectAt(sa_session, key) = {}
       THEN Fail("ValueError", Session_exit(sa_session))
       ELSE IF looped.status # "ok"
            THEN Fail(looped.status, Session_exit(sa_session))
            ELSE Done(<< >>, Session_exit(looped.work))

(* sa_session.delete(view): the associations of the view go with it *)
View_delete(engine, key, view_name) ==
    LET sa_session == Session_enter(engine)
    IN IF ViewAt(sa_session, key, view_name) = {}
       THEN Fail("ViewNotFoundError", Session_exit(sa_session))
       ELSE Done(<< >>,
                 Session_exit([sa_session EXCEPT
                     !.views = @ \ ViewAt(sa_session, key, view_name),
                     !.view_samples = @ \ SamplesOfView(sa_session, key, view_name)]))

RECURSIVE add_sample_anywhere(_, _, _, _)
add_sample_anywhere(db, key, view_name, sample_name) ==
    IF sample_name = << >> THEN Done(<< >>, db)
    ELSE IF {s \in db.samples : s.sample_name = Head(sample_name)} = {}
         THEN Fail("ValueError", db)
         ELSE IF ViewSampleAssociation(key, view_name, Head(sample_name))
                     \in db.view_samples
              THEN Fail("SampleAlreadyInView", db)
              ELSE add_sample_anywhere(
                       [db EXCEPT !.view_samples =
                           @ \cup {ViewSampleAssociation(key, view_name,
                                                         Head(sample_name))}],
                       key, view_name, Tail(sample_name))

RECURSIVE add_sample_again(_, _, _, _)
add_sample_again(db, key, view_name, sample_name) ==
    IF sample_name = << >> THEN Done(<< >>, db)
    ELSE IF SampleAt(db, key, Head(sample_name)) = {}
         THEN Fail("ValueError", db)
         ELSE add_sample_again(
                  [db EXCEPT !.view_samples =
                      @ \cup {ViewSampleAssociation(key, view_name,
                                                    Head(sample_name))}],
                  key, view_name, Tail(sample_name))

RECURSIVE add_sample_skipping(_, _, _, _)
add_sample_skipping(db, key, view_name, sample_name) ==
    IF sample_name = << >> THEN Done(<< >>, db)
    ELSE IF SampleAt(db, key, Head(sample_name)) = {}
         THEN Fail("ValueError",
                   add_sample_skipping(db, key, view_name, Tail(sample_name)).engine)
         ELSE IF ViewSampleAssociation(key, view_name, Head(sample_name))
                     \in db.view_samples
              THEN Fail("SampleAlreadyInView",
                        add_sample_skipping(db, key, view_name, Tail(sample_name)).engine)
              ELSE add_sample_skipping(
                       [db EXCEPT !.view_samples =
                           @ \cup {ViewSampleAssociation(key, view_name,
                                                         Head(sample_name))}],
                       key, view_name, Tail(sample_name))

RECURSIVE add_sample_loop(_, _, _, _)
(* view.py:254-272: every name is committed on its own, so db is the      *)
(* database as the last commit left it.  The insert of an association     *)
(* that is there already is the IntegrityError the loop translates.       *)
add_sample_loop(db, key, view_name, sample_name) ==
    IF sample_name = << >> THEN Done(<< >>, db)
    ELSE IF SampleAt(db, key, Head(sample_name)) = {}
         THEN Fail("ValueError", db)
         ELSE IF ViewSampleAssociation(key, view_name, Head(sample_name))
                     \in db.view_samples
              THEN Fail("SampleAlreadyInView", db)
              ELSE add_sample_loop(
                       [db EXCEPT !.view_samples =
                           @ \cup {ViewSampleAssociation(key, view_name,
                                                         Head(sample_name))}],
                       key, view_name, Tail(sample_name))

(* sample_name is the list the method makes of its argument (view.py:239) *)
View_add_sample(engine, key, view_name, sample_name) ==
    LET sa_session == Session_enter(engine)
        looped == add_sample_loop(sa_session, key, view_name, sample_name)
    IN IF ViewAt(sa_session, key, view_name) = {}
       THEN Fail("ViewNotFoundError", Session_exit(sa_session))
       ELSE [looped EXCEPT !.engine = Session_exit(@)]

(* With no such sample, sample is None and sample.id raises *)
View_remove_sample(engine, key, view_name, sample_name) ==
    LET sa_session == Session_enter(engine)
    IN IF ViewAt(sa_session, key, view_name) = {}
       THEN Fail("ViewNotFoundError", Session_exit(sa_session))
       ELSE IF SampleAt(sa_session, key, sample_name) = {}
            THEN Fail("AttributeError", Session_exit(sa_session))
            ELSE Done(<< >>,
                      Session_exit([sa_session EXCEPT !.view_samples =
                          @ \ {ViewSampleAssociation(key, view_name, sample_name)}]))

RECURSIVE snap_skipping(_, _, _, _)
snap_skipping(sa_session, key, sample_name_list, got) ==
    IF sample_name_list = << >> THEN [status |-> "ok", samples |-> got]
    ELSE snap_skipping(sa_session, key, Tail(sample_name_list),
                       IF SampleAt(sa_session, key, Head(sample_name_list)) = {}
                       THEN got
                       ELSE Append(got, CHOOSE s \in SampleAt(sa_session, key,
                                            Head(sample_name_list)) : TRUE))

RECURSIVE snap_loop(_, _, _, _)
(* view.py:350-363: the samples of the list, in the order of the list *)
snap_loop(sa_session, key, sample_name_list, got) ==
    IF sample_name_list = << >> THEN [status |-> "ok", samples |-> got]
    ELSE IF SampleAt(sa_session, key, Head(sample_name_list)) = {}
         THEN [status |-> "ValueError", samples |-> got]
         ELSE snap_loop(sa_session, key, Tail(sample_name_list),
                        Append(got, CHOOSE s \in SampleAt(sa_session, key,
                                        Head(sample_name_list)) : TRUE))

View_get_snap_view(engine, key, sample_name_list) ==
    LET sa_session == Session_enter(engine)
        looped == snap_loop(sa_session, key, sample_name_list, << >>)
    IN IF ProjectAt(sa_session, key) = {}
       THEN Fail("ValueError", Session_exit(sa_session))
       ELSE IF looped.status # "ok"
            THEN Fail(looped.status, Session_exit(sa_session))
            ELSE Done([_config |-> config(CHOOSE p \in ProjectAt(sa_session, key) : TRUE),
                       _sample_dict |-> looped.samples,
                       _subsample_dict |-> None],
                      Session_exit(sa_session))

(* The client gives a new view a name that no view of the project has *)
ViewCreate ==
    /\ ret = NoRet
    /\ \E key \in ViewKeys, view_name \in ViewNames, sample_list \in SampleLists,
          description \in ViewDescriptions :
        LET view_dict == [project_namespace |-> key.namespace,
                          project_name |-> key.name, project_tag |-> key.tag,
                          sample_list |-> sample_list]
            out == View_create(Engine, view_name, view_dict, description)
        IN /\ out.status = "ok" => ViewAt(Engine, key, view_name) = {}
           /\ Call("view_create",
                   [key |-> key, view_name |-> view_name,
                    sample_list |-> sample_list, description |-> description],
                   out)

ViewDelete ==
    /\ ret = NoRet
    /\ \E key \in ViewKeys, view_name \in ViewNames :
        Call("view_delete", [key |-> key, view_name |-> view_name],
             View_delete(Engine, key, view_name))

ViewAddSample ==
    /\ ret = NoRet
    /\ \E key \in ViewKeys, view_name \in ViewNames, sample_name \in SampleLists :
        Call("add_sample",
             [key |-> key, view_name |-> view_name, sample_name |-> sample_name],
             View_add_sample(Engine, key, view_name, sample_name))

ViewRemoveSample ==
    /\ ret = NoRet
    /\ \E key \in ViewKeys, view_name \in ViewNames, sample_name \in SampleNames :
        Call("remove_sample",
             [key |-> key, view_name |-> view_name, sample_name |-> sample_name],
             View_remove_sample(Engine, key, view_name, sample_name))

ViewGet ==
    /\ ret = NoRet
    /\ \E key \in ViewKeys, view_name \in ViewNames :
        Call("view_get", [key |-> key, view_name |-> view_name],
             View_get(Engine, key, view_name))

ViewGetAnnotation ==
    /\ ret = NoRet
    /\ \E key \in ViewKeys, view_name \in ViewNames :
        Call("get_annotation", [key |-> key, view_name |-> view_name],
             View_get_annotation(Engine, key, view_name))

ViewGetSnapView ==
    /\ ret = NoRet
    /\ \E key \in ViewKeys, sample_name_list \in SampleLists :
        Call("get_snap_view", [key |-> key, sample_name_list |-> sample_name_list],
             View_get_snap_view(Engine, key, sample_name_list))

-----------------------------------------------------------------------------
(* user.py.  A User row is [id, namespace], ids are dealt in order from 1; *)
(* a Favorites row is [user_id, project].  A project id stands for the    *)
(* project's key, and Python's None for an id is 0.                        *)

(* PEPDatabaseProject(...).get_project_id(namespace, name, tag) *)
get_project_id(engine, key) == key

(* select(User.id).where(User.namespace == namespace) *)
UserAt(engine, namespace) == {u \in engine.users : u.namespace = namespace}

create_user(engine, namespace) ==
    LET session == Session_enter(engine)
        new_user_raw == [id |-> Cardinality(session.users) + 1, namespace |-> namespace]
    IN Done(new_user_raw.id,
            Session_exit([session EXCEPT !.users = @ \cup {new_user_raw}]))

(* one_or_none() raises when the statement selects more than one row *)
get_user_id(engine, namespace) ==
    LET session == Session_enter(engine)
        result == UserAt(session, namespace)
    IN IF Cardinality(result) > 1
       THEN Fail("MultipleResultsFound", Session_exit(session))
       ELSE IF result # {}
            THEN Done((CHOOSE u \in result : TRUE).id, Session_exit(session))
            ELSE Done(0, Session_exit(session))

add_to_favorites_new_user(engine, namespace, key) ==
    LET project_id == get_project_id(engine, key)
        created == create_user(engine, namespace)
        new_favorites_raw == [user_id |-> created.val, project |-> project_id]
        session == Session_enter(created.engine)
    IN IF new_favorites_raw \in session.favorites
       THEN Fail("IntegrityError", Session_exit(session))
       ELSE Done(<< >>, Session_exit([session EXCEPT !.favorites =
                                         @ \cup {new_favorites_raw}]))

(* A second Favorites row of the same user and project is refused by the  *)
(* table, and the method does not catch that                               *)
add_to_favorites(engine, namespace, key) ==
    LET project_id == get_project_id(engine, key)
        got == get_user_id(engine, namespace)
        created == IF got.val = 0 THEN create_user(got.engine, namespace) ELSE got
        new_favorites_raw == [user_id |-> created.val, project |-> project_id]
        session == Session_enter(created.engine)
    IN IF got.status # "ok"
       THEN got
       ELSE IF new_favorites_raw \in session.favorites
            THEN Fail("IntegrityError", Session_exit(session))
            ELSE Done(<< >>, Session_exit([session EXCEPT !.favorites =
                                              @ \cup {new_favorites_raw}]))

remove_from_favorites_silent(engine, namespace, key) ==
    LET project_id == get_project_id(engine, key)
        got == get_user_id(engine, namespace)
        session == Session_enter(got.engine)
        deleted == {f \in session.favorites :
                       f.user_id = got.val /\ f.project = project_id}
    IN IF got.status # "ok"
       THEN got
       ELSE Done(<< >>, Session_exit([session EXCEPT !.favorites = @ \ deleted]))

(* The delete is committed first; row_count is the number of rows it took *)
remove_from_favorites(engine, namespace, key) ==
    LET project_id == get_project_id(engine, key)
        got == get_user_id(engine, namespace)
        session == Session_enter(got.engine)
        deleted == {f \in session.favorites :
                       f.user_id = got.val /\ f.project = project_id}
        committed == Session_exit([session EXCEPT !.favorites = @ \ deleted])
    IN IF got.status # "ok"
       THEN got
       ELSE IF Cardinality(deleted) = 0
            THEN Fail("ProjectNotInFavorites", committed)
            ELSE Done(<< >>, committed)

User_exists(engine, namespace) == UserAt(engine, namespace) # {}

(* session.scalar takes the first User row of the namespace; results is   *)
(* the list of its favorites, of which the model keeps the members         *)
get_favorites(engine, namespace) ==
    LET session == Session_enter(engine)
    IN IF ~User_exists(engine, namespace)
       THEN {Done([count |-> 0, limit |-> 0, offset |-> 0, results |-> {}], engine)}
       ELSE {LET favorites_mapping == {f \in session.favorites : f.user_id = query_result.id}
                 number_of_projects == Cardinality(favorites_mapping)
             IN Done([count |-> number_of_projects, limit |-> number_of_projects,
                      offset |-> 0,
                      results |-> {AnnotationModel(p) :
                                      p \in {q \in session.projects :
                                                \E f \in favorites_mapping :
                                                    f.project = KeyOf(q)}}],
                     Session_exit(session)) :
                query_result \in UserAt(session, namespace)}

(* The client names projects that exist *)
UserAddToFavorites ==
    /\ ret = NoRet
    /\ \E namespace \in Namespaces, key \in {KeyOf(p) : p \in projects} :
        Call("add_to_favorites", [namespace |-> namespace, key |-> key],
             add_to_favorites(Engine, namespace, key))

UserRemoveFromFavorites ==
    /\ ret = NoRet
    /\ \E namespace \in Namespaces, key \in {KeyOf(p) : p \in projects} :
        Call("remove_from_favorites", [namespace |-> namespace, key |-> key],
             remove_from_favorites(Engine, namespace, key))

UserGetFavorites ==
    /\ ret = NoRet
    /\ \E namespace \in Namespaces :
        \E out \in get_favorites(Engine, namespace) :
            Call("get_favorites", [namespace |-> namespace], out)

UserGetUserId ==
    /\ ret = NoRet
    /\ \E namespace \in Namespaces :
        Call("get_user_id", [namespace |-> namespace], get_user_id(Engine, namespace))

UserExists ==
    /\ ret = NoRet
    /\ \E namespace \in Namespaces :
        Call("exists", [namespace |-> namespace],
             Done(User_exists(Engine, namespace), Engine))

-----------------------------------------------------------------------------
(* schema.py: create, run by callers whose calls interleave.  A call is   *)
(* two steps, each a session of its own: self.exist (schema.py:213), then *)
(* the rest of the method on what exist answered.                          *)

Callers == {1, 2}

IdleCall == [pc |-> "idle", args |-> << >>, exists |-> FALSE, status |-> "none"]

RaceArgs ==
    [namespace : {NS1}, name : SchemaNames, schema : Documents,
     description : {<< >>}, overwrite : BOOLEAN, update_only : BOOLEAN]

(* schema.py:213-237 after self.exist has answered `exists`.  The insert  *)
(* of a second row under a (namespace, name) in use is refused at commit. *)
Schemas_create_rest(engine, exists, a) ==
    IF exists
    THEN IF a.overwrite
         THEN Schemas_update(engine, a.namespace, a.name, a.schema, a.description)
         ELSE IF a.update_only
              THEN Schemas_update(engine, a.namespace, a.name, a.schema, a.description)
              ELSE [status |-> "SchemaAlreadyExistsError", schemas |-> engine.schemas]
    ELSE IF a.update_only
         THEN [status |-> "SchemaDoesNotExistError", schemas |-> engine.schemas]
         ELSE IF SchemaAt(engine, a.namespace, a.name) # {}
              THEN [status |-> "IntegrityError", schemas |-> engine.schemas]
              ELSE [status |-> "ok",
                    schemas |-> engine.schemas
                                \cup {[namespace |-> a.namespace, name |-> a.name,
                                       schema_json |-> a.schema,
                                       description |-> a.description]}]

RaceFrame ==
    UNCHANGED <<projects, bulk, ret, groups, samples, views, view_samples,
                users, favorites, sessions>>

CreateExist(c) ==
    /\ inflight[c].pc = "idle"
    /\ \E a \in RaceArgs :
        inflight' = [inflight EXCEPT ![c] =
                        [pc |-> "checked", args |-> a,
                         exists |-> Schemas_exist(Engine, a.namespace, a.name),
                         status |-> "none"]]
    /\ UNCHANGED schemas
    /\ RaceFrame

CreateRest(c) ==
    /\ inflight[c].pc = "checked"
    /\ LET out == Schemas_create_rest(Engine, inflight[c].exists, inflight[c].args)
       IN /\ schemas' = out.schemas
          /\ inflight' = [inflight EXCEPT ![c].pc = "done", ![c].status = out.status]
    /\ RaceFrame

(* The caller takes what its call gave and is ready for the next *)
CreateReturn(c) ==
    /\ inflight[c].pc = "done"
    /\ inflight' = [inflight EXCEPT ![c] = IdleCall]
    /\ UNCHANGED schemas
    /\ RaceFrame

-----------------------------------------------------------------------------
(* schema.py: the search of schema groups *)

(* _add_group_condition, on one row of SchemaGroups *)
_add_group_condition(g, namespace, search_str) ==
    /\ search_str # None =>
          ilike(g.name, search_str) \/ ilike(g.description, search_str)
    /\ namespace # None => g.namespace = namespace

(* select(func.count(SchemaGroups.id)) under _add_condition, whose columns *)
(* are those of Schemas: with a condition the statement reads FROM         *)
(* schema_groups, schemas and counts the pairs of a group and a schema     *)
(* that passes; with none it reads schema_groups alone                     *)
_group_search_count(engine, namespace, search_str) ==
    LET session == Session_enter(engine)
    IN Done(IF search_str = None /\ namespace = None
            THEN Cardinality(session.groups)
            ELSE Cardinality(session.groups)
                 * Cardinality({r \in session.schemas :
                                   _add_condition(r, namespace, search_str)}),
            Session_exit(session))

(* group_search: the statement is run as _add_group_condition left it,    *)
(* limit and offset are only copied into the answer                        *)
group_search(engine, namespace, search_str, limit, offset) ==
    LET session == Session_enter(engine)
        return_results ==
            {[namespace |-> g.namespace, name |-> g.name,
              description |-> g.description, schemas |-> {}] :
                g \in {x \in session.groups :
                          _add_group_condition(x, namespace, search_str)}}
        counted == _group_search_count(Session_exit(session), namespace, search_str)
    IN Done([count |-> counted.val, limit |-> limit, offset |-> offset,
             results |-> return_results],
            counted.engine)

GroupSearch ==
    /\ ret = NoRet
    /\ \E namespace \in NamespaceArgs, search_str \in Queries,
          limit \in 0..MaxLimit, offset \in 0..MaxOffset :
        Call("group_search", [namespace |-> namespace, search_str |-> search_str],
             group_search(Engine, namespace, search_str, limit, offset))

-----------------------------------------------------------------------------
(* search.py: the Search class, two raw statements per method *)

(* f"%%{search_str}%%" of a search string that was left out: the letters   *)
(* of str(None) between the wildcards                                      *)
NoneFormatted == <<"N", "o", "n", "e">>

(* What namespace() is asked with: the strings a caller passes, "" among   *)
(* them, and the default                                                   *)
SearchStrings == Queries \cup {NoneFormatted}

ProjectSearchResultModel(row) ==
    [namespace |-> row.namespace, name |-> row.name, tag |-> row.tag,
     number_of_samples |-> row.number_of_samples,
     description |-> row.description, is_private |-> row.private]

FindProjectWhereAdmin(p, namespace, search_str, admin) ==
    /\ ilike(p.name, search_str) \/ ilike(p.description, search_str)
    /\ p.namespace = namespace

(* The WHERE clause of _get_number_of_found_projects, on one row *)
CountProjectWhere(p, namespace, search_str, admin) ==
    /\ ilike(p.name, search_str) \/ ilike(p.description, search_str)
    /\ p.namespace = namespace
    /\ ~admin => p.private = FALSE

(* The WHERE clause of _find_project, on one row *)
FindProjectWhere(p, namespace, search_str, admin) ==
    /\ ilike(p.name, search_str) \/ ilike(p.description, search_str)
    /\ p.namespace = namespace
    /\ ~admin => p.private = FALSE

(* The bulk rows that pass either clause: they are public, of              *)
(* BulkNamespace, and only the empty pattern matches their name            *)
SearchProjectBulk(engine, namespace, search_str) ==
    IF search_str = << >> /\ namespace = BulkNamespace THEN engine.bulk ELSE 0

_get_number_of_found_projects(engine, namespace, search_str, admin) ==
    Cardinality({p \in engine.projects : CountProjectWhere(p, namespace, search_str, admin)})
    + SearchProjectBulk(engine, namespace, search_str)

_find_project(engine, namespace, search_str, admin, limit, offset) ==
    {[rows |-> {ProjectSearchResultModel(p) : p \in page.rows}, bulk |-> page.bulk] :
        page \in Pages({p \in engine.projects :
                           FindProjectWhere(p, namespace, search_str, admin)},
                       SearchProjectBulk(engine, namespace, search_str), limit, offset)}

(* Search.project *)
Search_project(engine, namespace, admin, search_str, limit, offset) ==
    {[namespace |-> namespace, limit |-> limit, offset |-> offset,
      number_of_results |-> _get_number_of_found_projects(engine, namespace, search_str, admin),
      rows |-> found.rows, bulk |-> found.bulk] :
        found \in _find_project(engine, namespace, search_str, admin, limit, offset)}

(* if admin_list: tuple(admin_list) else: ("",) *)
AdminNsp(admin_list) ==
    IF admin_list # << >> THEN {admin_list[i] : i \in 1..Len(admin_list)} ELSE {<< >>}

(* The WHERE clause of _get_count_of_found_namespaces, on one row *)
CountNamespaceWhere(p, search_str, admin_nsp) ==
    \/ ilike(p.namespace, search_str) /\ p.private = FALSE
    \/ ilike(p.namespace, search_str) /\ p.namespace \in admin_nsp

(* The WHERE clause of _find_namespaces, on one row *)
FindNamespaceWhere(p, search_str, admin_nsp) ==
    \/ ilike(p.namespace, search_str) /\ p.private = FALSE
    \/ ilike(p.namespace, search_str) /\ p.namespace \in admin_nsp

SearchNamespaceBulk(engine, search_str) ==
    IF ilike(BulkNamespace, search_str) THEN engine.bulk ELSE 0

(* select COUNT(DISTINCT (namespace)) *)
_get_count_of_found_namespaces(engine, search_str, admin_nsp) ==
    Cardinality({p.namespace : p \in {q \in engine.projects :
                                         CountNamespaceWhere(q, search_str, admin_nsp)}}
                \cup (IF SearchNamespaceBulk(engine, search_str) > 0
                      THEN {BulkNamespace} ELSE {}))

(* select namespace, COUNT(name), SUM(n_samples) ... GROUP BY namespace *)
FoundNamespaces(engine, search_str, admin_nsp) ==
    LET rows == {p \in engine.projects : FindNamespaceWhere(p, search_str, admin_nsp)}
        nbulk(ns) == IF ns = BulkNamespace THEN SearchNamespaceBulk(engine, search_str) ELSE 0
        group(ns) == {p \in rows : p.namespace = ns}
    IN {[namespace |-> ns,
         number_of_projects |-> Cardinality(group(ns)) + nbulk(ns),
         number_of_samples |-> SumSamples(group(ns))] :
            ns \in {n \in Namespaces : group(n) # {} \/ nbulk(n) > 0}}

_find_namespaces(engine, search_str, admin_nsp, limit, offset) ==
    {page.rows :
        page \in Pages(FoundNamespaces(engine, search_str, admin_nsp), 0, limit, offset)}

(* Search.namespace *)
Search_namespace(engine, search_str, admin_list, limit, offset) ==
    {[number_of_results |->
          _get_count_of_found_namespaces(engine, search_str, AdminNsp(admin_list)),
      limit |-> limit, offset |-> offset, results |-> found] :
        found \in _find_namespaces(engine, search_str, AdminNsp(admin_list), limit, offset)}

(* The statements run on the psycopg2 connection: no session is opened *)
SearchProject ==
    /\ ret = NoRet
    /\ UNCHANGED <<projects, bulk, schemas, sessions>>
    /\ UNCHANGED untouched
    /\ \E namespace \in Namespaces, admin \in BOOLEAN, search_str \in Queries,
          limit \in 0..MaxLimit, offset \in 0..MaxOffset :
        \E found \in Search_project(Engine, namespace, admin, search_str, limit, offset) :
            ret' = Returned("search_project",
                            [namespace |-> namespace, admin |-> admin,
                             search_str |-> search_str],
                            found)

SearchNamespace ==
    /\ ret = NoRet
    /\ UNCHANGED <<projects, bulk, schemas, sessions>>
    /\ UNCHANGED untouched
    /\ \E search_str \in SearchStrings, admin_list \in Admins,
          limit \in 0..MaxLimit, offset \in 0..MaxOffset :
        \E found \in Search_namespace(Engine, search_str, admin_list, limit, offset) :
            ret' = Returned("search_namespace",
                            [search_str |-> search_str, admin_list |-> admin_list],
                            found)

-----------------------------------------------------------------------------
(* annotation.py:74-87 beside other callers.  The count of a listing and   *)
(* its fetch are two statements, each in a session of its own              *)
(* (annotation.py:235-236, 301-302); what another caller commits between   *)
(* the two is seen by the second.  The other callers write through the     *)
(* project module: they submit a project, delete one, or make one public.  *)

Lister == 1

IdleList == [pc |-> "idle", args |-> << >>, count |-> 0]

ListFrame ==
    UNCHANGED <<bulk, schemas, groups, samples, views, view_samples, users, favorites>>

(* count=self._count_projects(...), the first of the two to be evaluated *)
ListCount ==
    /\ ret = NoRet
    /\ inflight[Lister].pc = "idle"
    /\ \E namespace \in NamespaceArgs, query \in Queries, admin \in Admins,
          limit \in 0..MaxLimit, offset \in 0..MaxOffset :
        inflight' = [inflight EXCEPT ![Lister] =
            [pc |-> "counted",
             args |-> [namespace |-> namespace, query |-> query, admin |-> admin,
                       limit |-> limit, offset |-> offset],
             count |-> _count_projects(Engine, namespace, query, admin)]]
    /\ SessionScoped
    /\ UNCHANGED <<projects, ret>>
    /\ ListFrame

(* results=self._get_projects(...), and the AnnotationList of the two *)
ListFetch ==
    /\ inflight[Lister].pc = "counted"
    /\ LET a == inflight[Lister].args
       IN \E page \in _get_projects(Engine, a.namespace, a.query, a.admin,
                                    a.limit, a.offset) :
            ret' = Returned("list",
                            [namespace |-> a.namespace, query |-> a.query,
                             admin |-> a.admin],
                            [count |-> inflight[Lister].count,
                             limit |-> a.limit, offset |-> a.offset,
                             rows |-> page.rows, bulk |-> page.bulk])
    /\ inflight' = [inflight EXCEPT ![Lister] = IdleList]
    /\ SessionScoped
    /\ UNCHANGED projects
    /\ ListFrame

(* The lister takes the listing and is ready for its next call *)
ListReturn ==
    /\ ret # NoRet
    /\ ret' = NoRet
    /\ UNCHANGED <<projects, sessions, inflight>>
    /\ ListFrame

(* Another caller's submit commits *)
ProjectSubmit ==
    /\ Cardinality(projects) < MaxProjects
    /\ \E p \in ProjectRows :
        /\ \A q \in projects : KeyOf(q) # KeyOf(p)
        /\ projects' = projects \cup {p}
    /\ UNCHANGED <<ret, sessions, inflight>>
    /\ ListFrame

(* Another caller's delete commits *)
ProjectDelete ==
    /\ \E p \in projects : projects' = projects \ {p}
    /\ UNCHANGED <<ret, sessions, inflight>>
    /\ ListFrame

(* Another caller's update of is_private to False commits *)
ProjectMakePublic ==
    /\ \E p \in projects :
        /\ p.private
        /\ projects' = (projects \ {p}) \cup {[p EXCEPT !.private = FALSE]}
    /\ UNCHANGED <<ret, sessions, inflight>>
    /\ ListFrame

-----------------------------------------------------------------------------
(* user.py:64-88 with two callers.  add_to_favorites is three sessions:    *)
(* get_user_id (user.py:77), create_user when that found no user           *)
(* (user.py:79-80), and the insert of the Favorites row (user.py:84-86).   *)

IdleFav == [pc |-> "idle", args |-> << >>, user_id |-> 0, fresh |-> FALSE, status |-> "none"]

FavArgs == [namespace : {NS1}, key : {KeyOf(p) : p \in ViewProjects}]

FavFrame ==
    UNCHANGED <<projects, bulk, schemas, ret, groups, samples, views, view_samples>>

(* user_id = self.get_user_id(namespace) *)
FavGetUser(c) ==
    /\ inflight[c].pc = "idle"
    /\ \E a \in FavArgs :
        LET got == get_user_id(Engine, a.namespace)
        IN /\ inflight' = [inflight EXCEPT ![c] =
                  IF got.status = "ok"
                  THEN [pc |-> IF got.val = 0 THEN "no_user" ELSE "user",
                        args |-> a, user_id |-> got.val,
                        fresh |-> got.val = 0, status |-> "none"]
                  ELSE [pc |-> "done", args |-> a, user_id |-> 0,
                        fresh |-> FALSE, status |-> got.status]]
           /\ sessions' = got.engine.sessions
    /\ UNCHANGED <<users, favorites>>
    /\ FavFrame

(* if not user_id: user_id = self.create_user(namespace) *)
FavCreateUser(c) ==
    /\ inflight[c].pc = "no_user"
    /\ LET created == create_user(Engine, inflight[c].args.namespace)
       IN /\ users' = created.engine.users
          /\ sessions' = created.engine.sessions
          /\ inflight' = [inflight EXCEPT ![c].pc = "user", ![c].user_id = created.val]
    /\ UNCHANGED favorites
    /\ FavFrame

(* The same commit when the User table keeps namespace unique and a row   *)
(* of the namespace was committed since get_user_id: the table is defined *)
(* in db_utils, so both tables are possible                                *)
FavCreateUserRefused(c) ==
    /\ inflight[c].pc = "no_user"
    /\ UserAt(Engine, inflight[c].args.namespace) # {}
    /\ inflight' = [inflight EXCEPT ![c].pc = "done", ![c].status = "IntegrityError"]
    /\ UNCHANGED <<users, favorites, sessions>>
    /\ FavFrame

(* session.add(new_favorites_raw); session.commit() *)
FavAdd(c) ==
    /\ inflight[c].pc = "user"
    /\ LET session == Session_enter(Engine)
           new_favorites_raw ==
               [user_id |-> inflight[c].user_id,
                project |-> get_project_id(Engine, inflight[c].args.key)]
       IN IF new_favorites_raw \in session.favorites
          THEN /\ inflight' = [inflight EXCEPT ![c].pc = "done",
                                               ![c].status = "IntegrityError"]
               /\ favorites' = favorites
               /\ sessions' = Session_exit(session).sessions
          ELSE /\ inflight' = [inflight EXCEPT ![c].pc = "done", ![c].status = "ok"]
               /\ favorites' = favorites \cup {new_favorites_raw}
               /\ sessions' = Session_exit(session).sessions
    /\ UNCHANGED users
    /\ FavFrame

(* The caller takes what its call gave and is ready for the next *)
FavReturn(c) ==
    /\ inflight[c].pc = "done"
    /\ inflight' = [inflight EXCEPT ![c] = IdleFav]
    /\ UNCHANGED <<users, favorites, sessions>>
    /\ FavFrame

-----------------------------------------------------------------------------
(* The client takes the result and is ready for its next call *)
Continue ==
    /\ ret # NoRet
    /\ ret' = NoRet
    /\ UNCHANGED <<projects, bulk, schemas, sessions>>
    /\ UNCHANGED untouched

-----------------------------------------------------------------------------
(* The annotation and namespace modules over any stored projects: their   *)
(* calls only read, so each call is made on each content                   *)

(* The tables and callers a specification leaves out are empty *)
NoGroups == groups = {}

NoViews == samples = {} /\ views = {} /\ view_samples = {}

NoUsers == users = {} /\ favorites = {}

NoCallers == sessions = 0 /\ inflight = << >>

Init ==
    /\ ret = NoRet
    /\ NoGroups /\ NoViews /\ NoUsers /\ NoCallers
    /\ projects \in Databases
    /\ bulk \in BulkCounts
    /\ schemas = {}

Next ==
    \/ AnnotationGetSingle
    \/ AnnotationGetList
    \/ AnnotationGetByRp
    \/ NamespaceGet
    \/ Continue

Spec == Init /\ [][Next]_vars

(* The paginated listings of the three modules, over any stored projects   *)
(* or any stored schemas                                                   *)

InitPaging ==
    /\ ret = NoRet
    /\ NoGroups /\ NoViews /\ NoUsers /\ NoCallers
    /\ \/ projects \in Databases /\ bulk \in BulkCounts /\ schemas = {}
       \/ projects = {} /\ bulk = 0 /\ schemas \in SchemaTables

NextPaging ==
    \/ AnnotationGetList
    \/ NamespaceGet
    \/ SchemaSearch
    \/ Continue

SpecPaging == InitPaging /\ [][NextPaging]_vars

(* One client of the schema module, from the empty table *)

InitSchemas ==
    /\ ret = NoRet
    /\ NoGroups /\ NoViews /\ NoUsers /\ NoCallers
    /\ projects = {}
    /\ bulk = 0
    /\ schemas = {}

NextSchemas ==
    \/ SchemaCreate
    \/ SchemaUpdate
    \/ SchemaDelete
    \/ SchemaGet
    \/ SchemaInfo
    \/ SchemaExist
    \/ SchemaSearch
    \/ Continue

SpecSchemas == InitSchemas /\ [][NextSchemas]_vars

(* One client of the schema groups, from the empty table *)

InitGroups ==
    /\ ret = NoRet
    /\ projects = {}
    /\ bulk = 0
    /\ schemas = {}
    /\ NoGroups /\ NoViews /\ NoUsers /\ NoCallers

NextGroups ==
    \/ GroupCreate
    \/ GroupDelete
    \/ GroupGet
    \/ GroupExist
    \/ Continue

SpecGroups == InitGroups /\ [][NextGroups]_vars

(* One client of the view module, over the two projects and their samples *)

InitViews ==
    /\ ret = NoRet
    /\ projects = ViewProjects
    /\ bulk = 0
    /\ schemas = {}
    /\ samples = ViewSamples
    /\ views = {}
    /\ view_samples = {}
    /\ NoGroups /\ NoUsers /\ NoCallers

NextViews ==
    \/ ViewCreate
    \/ ViewDelete
    \/ ViewAddSample
    \/ ViewRemoveSample
    \/ ViewGet
    \/ ViewGetAnnotation
    \/ ViewGetSnapView
    \/ Continue

SpecViews == InitViews /\ [][NextViews]_vars

(* One client of the user module, over the two projects *)

InitUsers ==
    /\ ret = NoRet
    /\ projects = ViewProjects
    /\ bulk = 0
    /\ schemas = {}
    /\ samples = ViewSamples
    /\ views = {}
    /\ view_samples = {}
    /\ NoGroups /\ NoUsers /\ NoCallers

NextUsers ==
    \/ UserAddToFavorites
    \/ UserRemoveFromFavorites
    \/ UserGetFavorites
    \/ UserGetUserId
    \/ UserExists
    \/ Continue

SpecUsers == InitUsers /\ [][NextUsers]_vars

(* One client of all the modules over the two projects.  A run stays with *)
(* the module whose table it wrote to first, and reads annotations and    *)
(* namespaces while it has written to none.                                *)

NoViewWritten == views = {}

NoUserWritten == users = {}

NoSchemaWritten == schemas = {}

InitSessions ==
    /\ ret = NoRet
    /\ projects = ViewProjects
    /\ bulk = 0
    /\ schemas = {}
    /\ samples = ViewSamples
    /\ views = {}
    /\ view_samples = {}
    /\ NoGroups /\ NoUsers /\ NoCallers

NextSessions ==
    \/ NoViewWritten /\ NoUserWritten /\ NoSchemaWritten /\ AnnotationGetSingle
    \/ NoViewWritten /\ NoUserWritten /\ NoSchemaWritten /\ AnnotationGetList
    \/ NoViewWritten /\ NoUserWritten /\ NoSchemaWritten /\ NamespaceGet
    \/ NoUserWritten /\ NoSchemaWritten /\ ViewCreate
    \/ NoUserWritten /\ NoSchemaWritten /\ ViewDelete
    \/ NoUserWritten /\ NoSchemaWritten /\ ViewAddSample
    \/ NoUserWritten /\ NoSchemaWritten /\ ViewRemoveSample
    \/ NoUserWritten /\ NoSchemaWritten /\ ViewGetAnnotation
    \/ NoViewWritten /\ NoSchemaWritten /\ UserAddToFavorites
    \/ NoViewWritten /\ NoSchemaWritten /\ UserRemoveFromFavorites
    \/ NoViewWritten /\ NoSchemaWritten /\ UserGetFavorites
    \/ NoViewWritten /\ NoUserWritten /\ SchemaCreate
    \/ NoViewWritten /\ NoUserWritten /\ SchemaUpdate
    \/ NoViewWritten /\ NoUserWritten /\ SchemaDelete
    \/ Continue

SpecSessions == InitSessions /\ [][NextSessions]_vars

(* Two callers of Schemas.create on one database, from the empty table *)

InitCreateRace ==
    /\ ret = NoRet
    /\ projects = {}
    /\ bulk = 0
    /\ schemas = {}
    /\ NoGroups /\ NoViews /\ NoUsers
    /\ sessions = 0
    /\ inflight = [c \in Callers |-> IdleCall]

NextCreateRace ==
    \E c \in Callers :
        \/ CreateExist(c)
        \/ CreateRest(c)
        \/ CreateReturn(c)

SpecCreateRace == InitCreateRace /\ [][NextCreateRace]_vars

(* One client that creates schema groups and searches them, over any       *)
(* Schemas table of one document                                           *)

InitGroupSearch ==
    /\ ret = NoRet
    /\ projects = {}
    /\ bulk = 0
    /\ schemas \in {T \in SchemaTables : \A r \in T : r.schema_json = "S1"}
    /\ NoGroups /\ NoViews /\ NoUsers /\ NoCallers

NextGroupSearch ==
    \/ GroupCreate
    \/ GroupSearch
    \/ Continue

SpecGroupSearch == InitGroupSearch /\ [][NextGroupSearch]_vars

(* One client of the Search class, over any stored projects *)

NextSearch ==
    \/ SearchProject
    \/ SearchNamespace
    \/ Continue

SpecSearch == Init /\ [][NextSearch]_vars

(* One caller of the annotation listing beside callers that write         *)
(* projects, from the empty table                                          *)

InitListRace ==
    /\ ret = NoRet
    /\ projects = {}
    /\ bulk = 0
    /\ schemas = {}
    /\ NoGroups /\ NoViews /\ NoUsers
    /\ sessions = 0
    /\ inflight = [c \in {Lister} |-> IdleList]

NextListRace ==
    \/ ListCount
    \/ ListFetch
    \/ ListReturn
    \/ ProjectSubmit
    \/ ProjectDelete
    \/ ProjectMakePublic

SpecListRace == InitListRace /\ [][NextListRace]_vars

(* Two callers of add_to_favorites for one user namespace, over the two    *)
(* projects, from the empty User table                                     *)

InitFavRace ==
    /\ ret = NoRet
    /\ projects = ViewProjects
    /\ bulk = 0
    /\ schemas = {}
    /\ samples = ViewSamples
    /\ views = {}
    /\ view_samples = {}
    /\ NoGroups /\ NoUsers
    /\ sessions = 0
    /\ inflight = [c \in Callers |-> IdleFav]

NextFavRace ==
    \E c \in Callers :
        \/ FavGetUser(c)
        \/ FavCreateUser(c)
        \/ FavCreateUserRefused(c)
        \/ FavAdd(c)
        \/ FavReturn(c)

SpecFavRace == InitFavRace /\ [][NextFavRace]_vars

-----------------------------------------------------------------------------
(* What the claims speak of, said without the statements above *)

AdminSet(admin) == {admin[i] : i \in 1..Len(admin)}

(* s contains q, letter case ignored *)
ContainsCI(s, q) ==
    \E i \in 1..(Len(s) - Len(q) + 1) :
        \A j \in 1..Len(q) : Lower(s[i + j - 1]) = Lower(q[j])

VisibleTo(p, admin) == ~p.private \/ p.namespace \in AdminSet(admin)

(* The projects of a namespace that the caller can see, bulk rows included *)
VisibleCount(namespace, admin) ==
    Cardinality({p \in projects : p.namespace = namespace /\ VisibleTo(p, admin)})
    + (IF namespace = BulkNamespace THEN bulk ELSE 0)

NamespaceMatches(p, a) == a.namespace = None \/ p.namespace = a.namespace

(* The text rule of the listing: the name, or the description while the    *)
(* namespace asked for holds fewer projects than the threshold             *)
TextMatches(p, a) ==
    \/ a.query = None
    \/ ContainsCI(p.name, a.query)
    \/ /\ VisibleCount(a.namespace, a.admin) < ProjectNumberThreshold
       /\ ContainsCI(p.description, a.query)

BulkMatches(a) ==
    IF a.query = None /\ (a.namespace = None \/ a.namespace = BulkNamespace)
    THEN bulk ELSE 0

ArgKey(a) == [namespace |-> a.namespace, name |-> a.name, tag |-> a.tag]

VisibleAt(k, admin) == {p \in projects : KeyOf(p) = k /\ VisibleTo(p, admin)}

RECURSIVE ResolvedOf(_, _)
(* In input order, the annotation of every well-formed path that names a   *)
(* project the caller can see                                              *)
ResolvedOf(paths, admin) ==
    IF paths = << >> THEN << >>
    ELSE LET path == Head(paths)
             rest == ResolvedOf(Tail(paths), admin)
         IN IF IsRegistryPath(path)
                  /\ VisibleAt(registry_path_converter(path), admin) # {}
            THEN <<AnnotationModel(CHOOSE p \in
                       VisibleAt(registry_path_converter(path), admin) : TRUE)>> \o rest
            ELSE rest

AllResolve(paths, admin) ==
    \A i \in 1..Len(paths) :
        IsRegistryPath(paths[i]) =>
            VisibleAt(registry_path_converter(paths[i]), admin) # {}

EngineAfter ==
    [projects |-> projects', bulk |-> bulk', schemas |-> schemas', groups |-> groups',
     samples |-> samples', views |-> views', view_samples |-> view_samples',
     users |-> users', favorites |-> favorites', sessions |-> sessions']

-----------------------------------------------------------------------------
(* C1: every annotation a listing returns is public or of a namespace in   *)
(* the admin set, and every public project that passes the namespace and   *)
(* text filters of the call is in the unpaginated result and in count,     *)
(* whatever the admin set is.                                              *)
C1_ListingVisibility ==
    ret.op = "list" =>
        LET a == ret.args
            matching == {p \in projects : NamespaceMatches(p, a) /\ TextMatches(p, a)}
            all == _get_projects(Engine, a.namespace, a.query, a.admin,
                                 Cardinality(projects) + bulk, 0)
        IN /\ \A r \in ret.val.rows : ~r.is_private \/ r.namespace \in AdminSet(a.admin)
           /\ \A p \in matching : ~p.private =>
                  \A page \in all : AnnotationModel(p) \in page.rows
           /\ \A page \in all : page.bulk = BulkMatches(a)
           /\ ret.val.count =
                  Cardinality({p \in matching : VisibleTo(p, a.admin)}) + BulkMatches(a)

C1_Witness ==
    /\ ret.op = "list"
    /\ ret.args.query # None
    /\ \E p \in projects :
          /\ p.private /\ ~VisibleTo(p, ret.args.admin)
          /\ NamespaceMatches(p, ret.args) /\ TextMatches(p, ret.args)
    /\ \E r \in ret.val.rows : ~r.is_private
    /\ ret.val.count = Cardinality(ret.val.rows)

(* The number of results a paginated call returned *)
ResultLen ==
    IF ret.op = "list" THEN Cardinality(ret.val.rows) + ret.val.bulk
    ELSE Cardinality(ret.val.results)

(* C2: a page of the annotation listing, of the namespace listing and of   *)
(* the schema search holds at most limit results, never more than count,   *)
(* and does not run past count.                                            *)
C2_PageWithinCount ==
    ret.op \in {"list", "namespace", "search"} =>
        /\ ResultLen <= ret.val.limit
        /\ ret.val.count >= ResultLen
        /\ (ret.val.offset >= ResultLen \/ ret.val.offset + ResultLen <= ret.val.count)

C2_Witness ==
    /\ ret.op = "list"
    /\ ret.args.query # None
    /\ ret.val.offset > 0
    /\ ResultLen > 0
    /\ ret.val.offset + ResultLen = ret.val.count
    /\ \E r \in ret.val.rows :
          ~ContainsCI(r.name, ret.args.query) /\ ContainsCI(r.description, ret.args.query)

(* C3: the lookup by (namespace, name, tag) returns the one annotation     *)
(* with count 1, limit 1, offset 0 when the caller can see the project,    *)
(* and fails with ProjectNotFoundError when it cannot.                     *)
C3_LookupOrNotFound ==
    ret.op = "get" =>
        LET vis == VisibleAt(ArgKey(ret.args), ret.args.admin)
        IN IF vis # {}
           THEN /\ ret.status = "ok"
                /\ ret.val = [count |-> 1, limit |-> 1, offset |-> 0,
                              results |-> <<AnnotationModel(CHOOSE p \in vis : TRUE)>>]
           ELSE ret.status = "ProjectNotFoundError"

(* C4: to a caller that is no admin of the namespace, the lookup of a      *)
(* private project ends as the lookup of a project that is not stored.     *)
C4_PrivateLooksAbsent ==
    ret.op = "get" =>
        LET a == ret.args
            here == {p \in projects : KeyOf(p) = ArgKey(a)}
            absent == [Engine EXCEPT !.projects = projects \ here]
            other == _get_single_annotation(absent, a.namespace, a.name, a.tag, a.admin)
        IN (a.namespace \notin AdminSet(a.admin) /\ \E p \in here : p.private) =>
              /\ ret.status # "ok"
              /\ ret.status = other.status
              /\ ret.val = other.val

C4_Witness ==
    /\ ret.op = "get"
    /\ ret.args.namespace \notin AdminSet(ret.args.admin)
    /\ \E p \in projects : KeyOf(p) = ArgKey(ret.args) /\ p.private

(* C5: a malformed registry path makes get_by_rp neither raise nor lose a  *)
(* result: the call ends as it does on the list without its malformed      *)
(* entries, it returns whenever every well-formed path names a project the *)
(* caller can see, and what it returns holds those projects' annotations   *)
(* in input order, a path given twice resolved twice, with count the       *)
(* number of results, limit the length of the input and offset 0.          *)
C5_MalformedSkipped ==
    ret.op = "get_by_rp" =>
        LET a == ret.args
            expected == ResolvedOf(a.registry_paths, a.admin)
        IN /\ ret.status # "RegistryPathError"
           /\ ret.status =
                get_by_rp_loop(Engine, SelectSeq(a.registry_paths, IsRegistryPath),
                               a.admin, << >>).status
           /\ AllResolve(a.registry_paths, a.admin) => ret.status = "ok"
           /\ ret.status = "ok" =>
                ret.val = [count |-> Len(expected), limit |-> Len(a.registry_paths),
                           offset |-> 0, results |-> expected]

C5_Witness ==
    /\ ret.op = "get_by_rp"
    /\ ret.status = "ok"
    /\ Len(ret.args.registry_paths) = 3
    /\ ~IsRegistryPath(ret.args.registry_paths[2])
    /\ ret.args.registry_paths[1] = ret.args.registry_paths[3]
    /\ ret.val.count = 2
    /\ ret.val.results[1] = ret.val.results[2]

(* C6: a well-formed registry path whose project is not stored, or not     *)
(* visible to the caller, does not make get_by_rp raise: the entry is      *)
(* skipped and the other entries that resolve are returned.                *)
C6_NotFoundSkipped ==
    ret.op = "get_by_rp" =>
        /\ ret.status = "ok"
        /\ ret.val.results = ResolvedOf(ret.args.registry_paths, ret.args.admin)

(* The namespaces the namespace listing is to show, and their figures *)
ListedNamespaces(a) ==
    {ns \in Namespaces :
        /\ a.query = None \/ ContainsCI(ns, a.query)
        /\ VisibleCount(ns, a.admin) > 0}

(* C7: the namespace listing shows a namespace iff it holds a project the  *)
(* caller can see and its name contains the query; number_of_projects and  *)
(* number_of_samples are taken over the projects the caller can see, and   *)
(* count is the number of such namespaces.                                 *)
C7_NamespaceAggregates ==
    ret.op = "namespace" =>
        LET a == ret.args
            seen(ns) == {p \in projects : p.namespace = ns /\ VisibleTo(p, a.admin)}
        IN /\ ret.val.count = Cardinality(ListedNamespaces(a))
           /\ \A r \in ret.val.results :
                 /\ r.namespace \in ListedNamespaces(a)
                 /\ r.number_of_projects = VisibleCount(r.namespace, a.admin)
                 /\ r.number_of_samples = SumSamples(seen(r.namespace))
           /\ (ret.val.offset = 0 /\ ret.val.limit >= ret.val.count) =>
                 {r.namespace : r \in ret.val.results} = ListedNamespaces(a)

C7_Witness ==
    /\ ret.op = "namespace"
    /\ ret.args.query # None
    /\ \E r \in ret.val.results :
          /\ r.number_of_projects = 1
          /\ r.number_of_samples = 2
          /\ Cardinality({p \in projects : p.namespace = r.namespace}) = 2

(* C8: after create succeeds on a key that was not stored, get returns the *)
(* document given, info the description given, exist is true, and no other *)
(* schema has changed.                                                     *)
C8_CreateThenGet ==
    [][(/\ ret'.op = "create"
        /\ ret'.status = "ok"
        /\ ~Schemas_exist(Engine, ret'.args.namespace, ret'.args.name)) =>
       LET a == ret'.args
           others(T) == {r \in T : SchemaKeyOf(r) # [namespace |-> a.namespace,
                                                      name |-> a.name]}
       IN /\ Schemas_get(EngineAfter, a.namespace, a.name)
                = [status |-> "ok", val |-> a.schema]
          /\ Schemas_info(EngineAfter, a.namespace, a.name)
                = [status |-> "ok",
                   val |-> [namespace |-> a.namespace, name |-> a.name,
                            description |-> a.description]]
          /\ Schemas_exist(EngineAfter, a.namespace, a.name)
          /\ others(schemas') = others(schemas)]_vars

C8_Witness ==
    /\ ret.op = "create"
    /\ ret.status = "ok"
    /\ ~ret.args.overwrite /\ ~ret.args.update_only
    /\ ret.args.description # << >>
    /\ Cardinality(schemas) = 2

(* C9: create on a stored key with neither overwrite nor update_only fails *)
(* with SchemaAlreadyExistsError and changes nothing; with overwrite it    *)
(* succeeds, one schema is at the key, and get returns the second payload. *)
C9_CreateTwice ==
    [][(/\ ret'.op = "create"
        /\ Schemas_exist(Engine, ret'.args.namespace, ret'.args.name)) =>
       LET a == ret'.args
       IN /\ (~a.overwrite /\ ~a.update_only) =>
                 ret'.status = "SchemaAlreadyExistsError" /\ schemas' = schemas
          /\ a.overwrite =>
                 /\ ret'.status = "ok"
                 /\ Cardinality(SchemaAt(EngineAfter, a.namespace, a.name)) = 1
                 /\ Schemas_get(EngineAfter, a.namespace, a.name)
                       = [status |-> "ok", val |-> a.schema]
                 /\ Schemas_info(EngineAfter, a.namespace, a.name).val.description
                       = a.description]_vars

C9_Witness ==
    /\ ret.op = "create"
    /\ ret.status = "SchemaAlreadyExistsError"
    /\ \E r \in schemas :
          /\ r.namespace = ret.args.namespace /\ r.name = ret.args.name
          /\ r.schema_json # ret.args.schema

(* C10: update and delete on a key that is not stored fail with            *)
(* SchemaDoesNotExistError and leave the stored schemas as they are;       *)
(* delete on a stored key removes that schema and no other, after which    *)
(* exist is false and get and a second delete fail with                    *)
(* SchemaDoesNotExistError.                                                *)
C10_UpdateDeleteAbsent ==
    [][LET a == ret'.args
       IN /\ (/\ ret'.op \in {"update", "delete"}
              /\ ~Schemas_exist(Engine, a.namespace, a.name)) =>
                 ret'.status = "SchemaDoesNotExistError" /\ schemas' = schemas
          /\ (/\ ret'.op = "delete"
              /\ Schemas_exist(Engine, a.namespace, a.name)) =>
                 /\ ret'.status = "ok"
                 /\ schemas' = schemas \ SchemaAt(Engine, a.namespace, a.name)
                 /\ ~Schemas_exist(EngineAfter, a.namespace, a.name)
                 /\ Schemas_get(EngineAfter, a.namespace, a.name).status
                       = "SchemaDoesNotExistError"
                 /\ Schemas_delete(EngineAfter, a.namespace, a.name).status
                       = "SchemaDoesNotExistError"]_vars

C10_Witness ==
    /\ ret.op = "delete"
    /\ ret.status = "ok"
    /\ \E r \in schemas : r.name = ret.args.name

-----------------------------------------------------------------------------
(* C11: group_delete on a schema group that exists succeeds and the group *)
(* is gone afterwards; on a group that does not exist it fails with       *)
(* SchemaGroupDoesNotExistError and the table is as it was.                *)
C11_GroupDelete ==
    [][(ret = NoRet /\ ret'.op = "group_delete") =>
          LET a == ret'.args
              AtKey(T) == {g \in T : g.namespace = a.namespace /\ g.name = a.name}
          IN IF AtKey(groups) # {}
             THEN ret'.status = "ok" /\ AtKey(groups') = {}
                  /\ groups' \ AtKey(groups') = groups \ AtKey(groups)
             ELSE ret'.status = "SchemaGroupDoesNotExistError" /\ groups' = groups]_vars

-----------------------------------------------------------------------------
(* The view claims: the tables read directly *)

HasProject(key) == \E p \in projects : KeyOf(p) = key

IsSampleOf(key, sample_name) ==
    \E s \in samples : s.project = key /\ s.sample_name = sample_name

HasView(key, view_name) == \E v \in views : v.project = key /\ v.name = view_name

MembersOf(T, key, view_name) == {x \in T : x.project = key /\ x.view = view_name}

ViewDictOf(a) ==
    [project_namespace |-> a.key.namespace, project_name |-> a.key.name,
     project_tag |-> a.key.tag, sample_list |-> a.sample_list]

(* C12: View.create on an existing project with a sample_list that holds  *)
(* a name which is not a sample of the project fails with ValueError, the *)
(* error it raises for a missing project.                                  *)
C12_CreateInvalidSample ==
    (/\ ret.op = "view_create"
     /\ HasProject(ret.args.key)
     /\ \E i \in 1..Len(ret.args.sample_list) :
            ~IsSampleOf(ret.args.key, ret.args.sample_list[i]))
        => ret.status = "ValueError"

CreateFailed == ret = NoRet /\ ret'.op = "view_create" /\ ret'.status # "ok"

(* C13, as stated: whenever View.create fails, the views and the          *)
(* associations are the ones before the call, and get_annotation for the  *)
(* view name then fails with ViewNotFoundError.                            *)
C13_FailedCreateNoView ==
    [][CreateFailed =>
          /\ views' = views
          /\ view_samples' = view_samples
          /\ View_get_annotation(EngineAfter, ret'.args.key,
                                 ret'.args.view_name).status = "ViewNotFoundError"]_vars

(* C13, amended: whenever View.create fails, the views and the            *)
(* associations are the ones before the call; get_annotation for the view *)
(* name then fails with ViewNotFoundError if the project had no view of   *)
(* that name before the call, and returns that earlier view otherwise.    *)
C13_FailedCreateFrame ==
    [][CreateFailed =>
          /\ views' = views
          /\ view_samples' = view_samples
          /\ LET after == View_get_annotation(EngineAfter, ret'.args.key,
                                              ret'.args.view_name)
             IN IF HasView(ret'.args.key, ret'.args.view_name)
                THEN after = View_get_annotation(Engine, ret'.args.key,
                                                 ret'.args.view_name)
                     /\ after.status = "ok"
                ELSE after.status = "ViewNotFoundError"]_vars

(* A create that failed on its second name, the first being valid *)
C13_Witness ==
    /\ ret.op = "view_create"
    /\ ret.status # "ok"
    /\ HasProject(ret.args.key)
    /\ Len(ret.args.sample_list) = 2
    /\ IsSampleOf(ret.args.key, ret.args.sample_list[1])
    /\ ~IsSampleOf(ret.args.key, ret.args.sample_list[2])
    /\ ~HasView(ret.args.key, ret.args.view_name)

(* C14: add_sample of one sample that is in the view already fails with   *)
(* SampleAlreadyInView and the associations stay as they were; add_sample *)
(* of a sample of the project that is not in the view succeeds, the view  *)
(* gains that one association and its number_of_samples grows by one.      *)
C14_AddSample ==
    [][(ret = NoRet /\ ret'.op = "add_sample" /\ Len(ret'.args.sample_name) = 1) =>
          LET a == ret'.args
              assoc == [project |-> a.key, view |-> a.view_name,
                        sample_name |-> a.sample_name[1]]
              before == View_get_annotation(Engine, a.key, a.view_name)
              after == View_get_annotation(EngineAfter, a.key, a.view_name)
          IN /\ assoc \in view_samples =>
                   /\ ret'.status = "SampleAlreadyInView"
                   /\ view_samples' = view_samples
             /\ (/\ HasView(a.key, a.view_name)
                 /\ IsSampleOf(a.key, a.sample_name[1])
                 /\ assoc \notin view_samples) =>
                   /\ ret'.status = "ok"
                   /\ view_samples' = view_samples \cup {assoc}
                   /\ after.val.number_of_samples
                          = before.val.number_of_samples + 1]_vars

C14_Witness ==
    /\ ret.op = "add_sample"
    /\ Len(ret.args.sample_name) = 1
    /\ ret.status = "SampleAlreadyInView"
    /\ Cardinality(MembersOf(view_samples, ret.args.key, ret.args.view_name)) = 2

(* C15: every view is a view of an existing project, and every            *)
(* association joins a view to a sample of that view's project.            *)
C15_ViewsWithinProject ==
    /\ \A v \in views : HasProject(v.project)
    /\ \A x \in view_samples :
          HasView(x.project, x.view) /\ IsSampleOf(x.project, x.sample_name)

(* After a failed add_sample of a name that is a sample of another project *)
C15_Witness ==
    /\ ret.op = "add_sample"
    /\ ret.status = "ValueError"
    /\ \E i \in 1..Len(ret.args.sample_name), s \in samples :
          /\ s.sample_name = ret.args.sample_name[i]
          /\ ~IsSampleOf(ret.args.key, ret.args.sample_name[i])
    /\ view_samples # {}

(* C16: get_snap_view writes nothing; it returns iff the project and      *)
(* every name of the list exist, and then its _config and the set of its  *)
(* samples are those View.get returns for a view created on the project   *)
(* with that list.                                                         *)
C16_SnapView ==
    [][(ret = NoRet /\ ret'.op = "get_snap_view") =>
          LET a == ret'.args
              L == a.sample_name_list
              resolvable == HasProject(a.key)
                            /\ \A i \in 1..Len(L) : IsSampleOf(a.key, L[i])
          IN /\ UNCHANGED <<projects, bulk, samples, views, view_samples>>
             /\ ret'.status = "ok" <=> resolvable
             /\ ret'.status # "ok" => ret'.status = "ValueError"
             /\ ret'.status = "ok" =>
                   \A view_name \in ViewNames, description \in ViewDescriptions :
                       ~HasView(a.key, view_name) =>
                           LET created == View_create(Engine, view_name,
                                   ViewDictOf([key |-> a.key, sample_list |-> L]),
                                   description)
                               got == View_get(created.engine, a.key, view_name)
                           IN /\ created.status = "ok"
                              /\ got.status = "ok"
                              /\ got.val._config = ret'.val._config
                              /\ got.val._sample_dict =
                                     {ret'.val._sample_dict[i] :
                                         i \in 1..Len(ret'.val._sample_dict)}
                              /\ Len(ret'.val._sample_dict) = Len(L)]_vars

C16_Witness ==
    /\ ret.op = "get_snap_view"
    /\ ret.status = "ok"
    /\ Len(ret.args.sample_name_list) = 2
    /\ \E view_name \in ViewNames : ~HasView(ret.args.key, view_name)
    /\ views # {}

-----------------------------------------------------------------------------
(* The favorites claims: the tables read directly *)

UsersOf(U, namespace) == {u \in U : u.namespace = namespace}

FavoritesOf(U, F, namespace) ==
    {f.project : f \in {g \in F : \E u \in UsersOf(U, namespace) : g.user_id = u.id}}

(* C17: remove_from_favorites of an existing project that is not among    *)
(* the user's favorites raises ProjectNotInFavorites and no favorite of   *)
(* any user changes; when the project, added before, is the user's only   *)
(* favorite, the removal succeeds and get_favorites then returns no       *)
(* results and count 0.                                                    *)
C17_RemoveFromFavorites ==
    [][(ret = NoRet /\ ret'.op = "remove_from_favorites") =>
          LET a == ret'.args
              mine == FavoritesOf(users, favorites, a.namespace)
          IN /\ HasProject(a.key)
             /\ a.key \notin mine =>
                   /\ ret'.status = "ProjectNotInFavorites"
                   /\ favorites' = favorites
                   /\ users' = users
             /\ mine = {a.key} =>
                   /\ ret'.status = "ok"
                   /\ \A n \in Namespaces \ {a.namespace} :
                          FavoritesOf(users', favorites', n)
                              = FavoritesOf(users, favorites, n)
                   /\ \A out \in get_favorites(EngineAfter, a.namespace) :
                          /\ out.status = "ok"
                          /\ out.val.results = {}
                          /\ out.val.count = 0]_vars

(* After the removal of a user's only favorite, another user having some *)
C17_Witness ==
    /\ ret.op = "remove_from_favorites"
    /\ ret.status = "ok"
    /\ FavoritesOf(users, favorites, ret.args.namespace) = {}
    /\ favorites # {}

(* C18: add_to_favorites of an existing project for a namespace without a *)
(* user record leaves exactly one record of that namespace, and no other  *)
(* new record; for a namespace with a record the User table is unchanged; *)
(* a project that was not a favorite of the user is recorded under that   *)
(* one record; and get_favorites afterwards holds the project, its count  *)
(* being the number of its results.                                        *)
C18_AddToFavorites ==
    [][(ret = NoRet /\ ret'.op = "add_to_favorites") =>
          LET a == ret'.args
              had == UsersOf(users, a.namespace)
              has == UsersOf(users', a.namespace)
          IN /\ HasProject(a.key)
             /\ Cardinality(has) = 1
             /\ IF had = {} THEN users' = users \cup has ELSE users' = users
             /\ a.key \notin FavoritesOf(users, favorites, a.namespace) =>
                   /\ ret'.status = "ok"
                   /\ favorites' = favorites
                          \cup {[user_id |-> u.id, project |-> a.key] : u \in has}
             /\ \A out \in get_favorites(EngineAfter, a.namespace) :
                   /\ out.status = "ok"
                   /\ \E r \in out.val.results :
                          /\ r.namespace = a.key.namespace
                          /\ r.name = a.key.name
                          /\ r.tag = a.key.tag
                   /\ out.val.count = Cardinality(out.val.results)]_vars

(* A first favorite of a second user, who got the second record *)
C18_Witness ==
    /\ ret.op = "add_to_favorites"
    /\ ret.status = "ok"
    /\ Cardinality(users) = 2
    /\ Cardinality(FavoritesOf(users, favorites, ret.args.namespace)) = 1

-----------------------------------------------------------------------------
RECURSIVE AddedBefore(_, _, _)
(* The associations of the names of an add_sample list that come before   *)
(* the first name which is no sample of the project or is in the view     *)
AddedBefore(key, view_name, names) ==
    IF names = << >> THEN {}
    ELSE LET assoc == [project |-> key, view |-> view_name, sample_name |-> Head(names)]
         IN IF ~IsSampleOf(key, Head(names)) \/ assoc \in view_samples
            THEN {}
            ELSE {assoc} \cup AddedBefore(key, view_name, Tail(names))

(* C19: no session is open after any call, returned or raised, and a call *)
(* that raised leaves in the tables only what it had committed: nothing,  *)
(* except for add_sample, whose earlier names were committed one by one.  *)
C19_SessionsReleased ==
    [][/\ sessions' = 0
       /\ (ret = NoRet /\ ret'.status \notin {"none", "ok"}) =>
             /\ UNCHANGED <<projects, bulk, schemas, groups, samples, views,
                            users, favorites>>
             /\ IF ret'.op = "add_sample" /\ HasView(ret'.args.key, ret'.args.view_name)
                THEN view_samples' = view_samples
                         \cup AddedBefore(ret'.args.key, ret'.args.view_name,
                                          ret'.args.sample_name)
                ELSE view_samples' = view_samples]_vars

(* After a create that raised with its view and an association pending *)
C19_Witness ==
    /\ sessions = 0
    /\ ret.op = "view_create"
    /\ ret.status = "NoResultFound"
    /\ Len(ret.args.sample_list) = 2
    /\ views # {}

-----------------------------------------------------------------------------
(* C20: when two create calls for one (namespace, name), both without     *)
(* overwrite and update_only, have both had "does not exist" from the     *)
(* existence check and have both finished, one schema is at the key, one  *)
(* call has succeeded and the other has failed with                       *)
(* SchemaAlreadyExistsError.                                               *)
C20_CreateRace ==
    \A c, d \in DOMAIN inflight :
        (/\ c # d
         /\ inflight[c].pc = "done" /\ inflight[d].pc = "done"
         /\ inflight[c].args.namespace = inflight[d].args.namespace
         /\ inflight[c].args.name = inflight[d].args.name
         /\ \A e \in {c, d} : /\ ~inflight[e].args.overwrite
                              /\ ~inflight[e].args.update_only
                              /\ ~inflight[e].exists)
            => /\ Cardinality({r \in schemas :
                                  /\ r.namespace = inflight[c].args.namespace
                                  /\ r.name = inflight[c].args.name}) <= 1
               /\ {inflight[c].status, inflight[d].status}
                      = {"ok", "SchemaAlreadyExistsError"}


-----------------------------------------------------------------------------
(* The visible projects of the namespace asked for that pass the text rule *)
(* of the listing: the name holds the query, or the description does while *)
(* get_project_number_in_namespace answers less than the threshold         *)
TextFiltered(a) ==
    {p \in projects :
        /\ p.namespace = a.namespace
        /\ VisibleTo(p, a.admin)
        /\ \/ ContainsCI(p.name, a.query)
           \/ /\ VisibleCount(a.namespace, a.admin) < ProjectNumberThreshold
              /\ ContainsCI(p.description, a.query)}

DescriptionOnly(p, query) == ContainsCI(p.description, query) /\ ~ContainsCI(p.name, query)

-----------------------------------------------------------------------------
(* The visible projects the call asks about whose tag holds the query      *)
(* while their name and their description do not                           *)
TagOnly(a) ==
    {p \in projects :
        /\ NamespaceMatches(p, a)
        /\ VisibleTo(p, a.admin)
        /\ ContainsCI(p.tag, a.query)
        /\ ~ContainsCI(p.name, a.query)
        /\ ~ContainsCI(p.description, a.query)}

(* C22: the query of a listing is searched in the tag too: a visible       *)
(* project whose tag holds the query, and whose name and description do    *)
(* not, is in the unpaginated result and is counted.                       *)
C22_TagSearched ==
    (ret.op = "list" /\ ret.args.query # None) =>
        LET a == ret.args
            all == _get_projects(Engine, a.namespace, a.query, a.admin,
                                 Cardinality(projects) + bulk, 0)
        IN /\ \A p \in TagOnly(a) : \A page \in all : AnnotationModel(p) \in page.rows
           /\ ret.val.count >= Cardinality(TagOnly(a))

-----------------------------------------------------------------------------
(* The groups that pass the namespace and the text filter of a group       *)
(* search: the group's name or description holds the query                 *)
GroupsMatching(a) ==
    {g \in groups :
        /\ a.namespace # None => g.namespace = a.namespace
        /\ a.search_str # None =>
              ContainsCI(g.name, a.search_str) \/ ContainsCI(g.description, a.search_str)}

(* C23: group_search is a paginated listing: it returns at most limit      *)
(* groups, each passing the namespace and text filters, count is the       *)
(* number of groups that pass them whatever schemas exist, and a page that *)
(* is not empty ends at or before count.                                   *)
C23_GroupSearchPaged ==
    ret.op = "group_search" =>
        LET a == ret.args
            n == Cardinality(ret.val.results)
        IN /\ n <= ret.val.limit
           /\ \A r \in ret.val.results :
                  \E g \in GroupsMatching(a) : g.namespace = r.namespace /\ g.name = r.name
           /\ ret.val.count = Cardinality(GroupsMatching(a))
           /\ n > 0 => ret.val.offset + n <= ret.val.count

-----------------------------------------------------------------------------
(* The projects of a namespace whose name or description holds the search  *)
(* string                                                                  *)
FoundIn(namespace, search_str) ==
    {p \in projects :
        /\ p.namespace = namespace
        /\ ContainsCI(p.name, search_str) \/ ContainsCI(p.description, search_str)}

(* The namespaces whose name holds the search string and that have a       *)
(* project that is public, or any project if the namespace is in the set   *)
NamespacesOpenTo(search_str, admin_set) ==
    {ns \in Namespaces :
        /\ ContainsCI(ns, search_str)
        /\ \/ \E p \in projects : p.namespace = ns /\ (~p.private \/ ns \in admin_set)
           \/ ns = BulkNamespace /\ bulk > 0}

(* C24: in Search.project and Search.namespace the count and the fetch     *)
(* apply the same filters: number_of_results is the number of rows the     *)
(* fetch returns without LIMIT and OFFSET; without admin only the          *)
(* non-private projects of the namespace are counted and returned, and     *)
(* namespace() without an admin list counts the namespaces of non-private  *)
(* projects only.                                                          *)
C24_SearchCountsWhatItFetches ==
    /\ ret.op = "search_project" =>
          LET a == ret.args
              nbulk == IF a.search_str = << >> /\ a.namespace = BulkNamespace
                       THEN bulk ELSE 0
              all == _find_project(Engine, a.namespace, a.search_str, a.admin,
                                   Cardinality(projects) + bulk, 0)
              open == {p \in FoundIn(a.namespace, a.search_str) : a.admin \/ ~p.private}
          IN /\ \A page \in all :
                    ret.val.number_of_results = Cardinality(page.rows) + page.bulk
             /\ ret.val.number_of_results = Cardinality(open) + nbulk
             /\ ret.val.rows \subseteq {ProjectSearchResultModel(p) : p \in open}
             /\ ~a.admin => \A r \in ret.val.rows : ~r.is_private
    /\ ret.op = "search_namespace" =>
          LET a == ret.args
              all == _find_namespaces(Engine, a.search_str, AdminNsp(a.admin_list),
                                      Cardinality(Namespaces), 0)
          IN /\ \A page \in all : ret.val.number_of_results = Cardinality(page)
             /\ ret.val.number_of_results =
                    Cardinality(NamespacesOpenTo(a.search_str, AdminSet(a.admin_list)))
             /\ \A r \in ret.val.results :
                    r.namespace \in NamespacesOpenTo(a.search_str, AdminSet(a.admin_list))

C24_Witness ==
    /\ ret.op = "search_project"
    /\ ~ret.args.admin
    /\ ret.args.search_str # << >>
    /\ \E p \in FoundIn(ret.args.namespace, ret.args.search_str) : p.private
    /\ ret.val.number_of_results = 1
    /\ Cardinality(ret.val.rows) = 1

-----------------------------------------------------------------------------
(* C25: the count of an annotation listing is at least the number of       *)
(* results of the listing, also when other callers submit, delete or make  *)
(* public a project between the count query and the fetch query.           *)
C25_CountCoversResults ==
    ret.op = "list" => ret.val.count >= Cardinality(ret.val.rows) + ret.val.bulk

-----------------------------------------------------------------------------
(* C26: when two add_to_favorites calls for one namespace that had no user *)
(* record, each having found no user, have both finished, the namespace    *)
(* has exactly one user record, the favorites of both calls are attached   *)
(* to it, and get_user_id and get_favorites of the namespace succeed.      *)
C26_FavoritesRace ==
    \A c, d \in DOMAIN inflight :
        (/\ c # d
         /\ inflight[c].pc = "done" /\ inflight[d].pc = "done"
         /\ inflight[c].args.namespace = inflight[d].args.namespace
         /\ inflight[c].fresh /\ inflight[d].fresh)
            => LET namespace == inflight[c].args.namespace
                   has == UsersOf(users, namespace)
               IN /\ Cardinality(has) = 1
                  /\ \A e \in {c, d} :
                         \A u \in has :
                             [user_id |-> u.id, project |-> inflight[e].args.key]
                                 \in favorites
                  /\ get_user_id(Engine, namespace).status = "ok"
                  /\ \A out \in get_favorites(Engine, namespace) : out.status = "ok"

-----------------------------------------------------------------------------
(* C27: create with update_only on a key that is not stored fails with     *)
(* SchemaDoesNotExistError and stores nothing; on a stored key it succeeds *)
(* and the one schema at the key has the document and the description      *)
(* given, every other schema being as it was.                              *)
C27_UpdateOnly ==
    [][(ret'.op = "create" /\ ret'.args.update_only) =>
       LET a == ret'.args
           at(T) == {r \in T : r.namespace = a.namespace /\ r.name = a.name}
       IN IF at(schemas) = {}
          THEN ret'.status = "SchemaDoesNotExistError" /\ schemas' = schemas
          ELSE /\ ret'.status = "ok"
               /\ at(schemas') = {[namespace |-> a.namespace, name |-> a.name,
                                   schema_json |-> a.schema,
                                   description |-> a.description]}
               /\ schemas' \ at(schemas') = schemas \ at(schemas)]_vars

C27_Witness ==
    /\ ret.op = "create"
    /\ ret.status = "ok"
    /\ ret.args.update_only /\ ~ret.args.overwrite
    /\ ret.args.description # << >>
    /\ Cardinality(schemas) = 2
    /\ \E r \in schemas : r.schema_json # ret.args.schema

-----------------------------------------------------------------------------
(* The database without the private projects of a namespace.  Two          *)
(* databases that differ only in the private projects of the namespace     *)
(* are the same database once these are taken away.                        *)
WithoutPrivateOf(engine, N) ==
    [engine EXCEPT !.projects = {p \in @ : ~(p.private /\ p.namespace = N)}]

(* C28: to a caller whose admin set does not hold namespace N, a listing   *)
(* answers the same on two databases that differ only in the private       *)
(* projects of N: the same count, the same pages, and the same project     *)
(* number behind the decision to search the description.                   *)
C28_PrivateNoninterference ==
    ret.op = "list" =>
        LET a == ret.args
        IN \A N \in Namespaces \ AdminSet(a.admin) :
              LET low == WithoutPrivateOf(Engine, N)
              IN /\ ret.val.count = _count_projects(low, a.namespace, a.query, a.admin)
                 /\ _get_projects(Engine, a.namespace, a.query, a.admin,
                                  ret.val.limit, ret.val.offset)
                      = _get_projects(low, a.namespace, a.query, a.admin,
                                      ret.val.limit, ret.val.offset)
                 /\ [rows |-> ret.val.rows, bulk |-> ret.val.bulk]
                      \in _get_projects(low, a.namespace, a.query, a.admin,
                                        ret.val.limit, ret.val.offset)
                 /\ get_project_number_in_namespace(Engine, a.namespace, a.admin)
                      = get_project_number_in_namespace(low, a.namespace, a.admin)

(* A namespace one private project short of the threshold in the eyes of   *)
(* its admin: the other callers still get the match by description         *)
C28_Witness ==
    /\ ret.op = "list"
    /\ ret.args.query # None
    /\ ret.args.namespace = BulkNamespace
    /\ BulkNamespace \notin AdminSet(ret.args.admin)
    /\ \E p \in projects : p.private /\ p.namespace = BulkNamespace
    /\ VisibleCount(BulkNamespace, ret.args.admin) = ProjectNumberThreshold - 1
    /\ \E r \in ret.val.rows : DescriptionOnly(r, ret.args.query)

-----------------------------------------------------------------------------
(* C29: a listing with a query and no namespace always searches the        *)
(* description, the project number of no namespace being 0: every visible  *)
(* project whose description holds the query is in the unpaginated result  *)
(* and in count, however many projects are stored.                         *)
C29_NoNamespaceSearchesDescription ==
    (ret.op = "list" /\ ret.args.query # None /\ ret.args.namespace = None) =>
        LET a == ret.args
            described == {p \in projects :
                             VisibleTo(p, a.admin) /\ ContainsCI(p.description, a.query)}
            named == {p \in projects :
                         VisibleTo(p, a.admin) /\ ContainsCI(p.name, a.query)}
            all == _get_projects(Engine, a.namespace, a.query, a.admin,
                                 Cardinality(projects) + bulk, 0)
        IN /\ get_project_number_in_namespace(Engine, a.namespace, a.admin) = 0
           /\ \A page \in all :
                  page.rows = {AnnotationModel(p) : p \in described \cup named}
           /\ ret.val.count = Cardinality(described \cup named)

C29_Witness ==
    /\ ret.op = "list"
    /\ ret.args.query # None
    /\ ret.args.namespace = None
    /\ Cardinality(projects) + bulk >= ProjectNumberThreshold
    /\ \E r \in ret.val.rows : DescriptionOnly(r, ret.args.query)
    /\ ret.val.count = 1

-----------------------------------------------------------------------------
(* The i-th name of an add_sample list cannot be added: it is no sample of *)
(* the project, or it is a member of the view already                      *)
FailsAt(a, i) ==
    \/ ~IsSampleOf(a.key, a.sample_name[i])
    \/ [project |-> a.key, view |-> a.view_name, sample_name |-> a.sample_name[i]]
           \in view_samples

(* C30: add_sample with a list commits name by name: when the k-th name is *)
(* the first that is no sample of the project or is in the view already,   *)
(* the call fails on it, the k-1 names before it have become members of    *)
(* the view, and neither the k-th nor any later name has been added.       *)
C30_AddSampleList ==
    [][(/\ ret = NoRet
        /\ ret'.op = "add_sample"
        /\ HasView(ret'.args.key, ret'.args.view_name)
        /\ \E i \in 1..Len(ret'.args.sample_name) : FailsAt(ret'.args, i)) =>
          LET a == ret'.args
              k == CHOOSE i \in 1..Len(a.sample_name) :
                       FailsAt(a, i) /\ \A j \in 1..(i - 1) : ~FailsAt(a, j)
              assoc(i) == [project |-> a.key, view |-> a.view_name,
                           sample_name |-> a.sample_name[i]]
          IN /\ ret'.status = IF IsSampleOf(a.key, a.sample_name[k])
                              THEN "SampleAlreadyInView" ELSE "ValueError"
             /\ \A i \in 1..(k - 1) : assoc(i) \in view_samples'
             /\ \A i \in k..Len(a.sample_name) :
                    assoc(i) \in view_samples' <=> assoc(i) \in view_samples
             /\ view_samples' = view_samples \cup {assoc(i) : i \in 1..(k - 1)}]_vars

(* The second name is no sample of the project; the first has been added *)
C30_Witness ==
    /\ ret.op = "add_sample"
    /\ ret.status = "ValueError"
    /\ Len(ret.args.sample_name) = 2
    /\ ~IsSampleOf(ret.args.key, ret.args.sample_name[2])
    /\ [project |-> ret.args.key, view |-> ret.args.view_name,
        sample_name |-> ret.args.sample_name[1]] \in view_samples

====
